---- MODULE Spec2Model ----
(***************************************************************************)
(* Model of the kwmjs Call Engine (WebRTCManager, src/src/webrtc.ts) with  *)
(* the Group Coordinator (GroupController) and the part of the transport   *)
(* (KWM.sendWebSocketPayload) the engine sends through.                    *)
(*                                                                         *)
(* Objects are modelled as a heap: a PeerRecord is a heap cell named by a  *)
(* record id (rid), the peer table maps a key to a rid, and closures       *)
(* (awaiting calls, timers) hold rids.  Object identity (record !==        *)
(* this.peers.get(user)) is equality of rids.  Cells and peer connections  *)
(* nothing refers to any more are collected after every step.              *)
(*                                                                         *)
(* Handlers are operators from an engine state s (a record of all the      *)
(* fields) to an engine state, so that a handler that calls another one    *)
(* (doMesh -> doHangup, doAnswer) is one atomic step, as on the single     *)
(* JavaScript thread.  An await that suspends is a closure in s.pend.      *)
(*                                                                         *)
(* What a handler hands to the transport (s.sent), the events it           *)
(* dispatches (s.events), the error it throws (s.err) and its return value *)
(* (s.ret) are outputs of the handler, not engine state: the properties    *)
(* read them from the handler applied to a reachable state.                *)
(***************************************************************************)
EXTENDS Integers, Sequences, FiniteSets, TLC

VARIABLES
    user,        \* WebRTCBaseManager.user ("" = undefined)
    channel,     \* WebRTCBaseManager.channel
    opts,        \* channelOptions.localStreamTarget as a rid, 0 = {} (no option set)
    group,       \* WebRTCBaseManager.group: the rid of the controller's record, 0 = undefined
    peers,       \* WebRTCBaseManager.peers: key -> rid
    heap,        \* rid -> PeerRecord
    pcs,         \* pc id -> [destroyed, initiator, media]: the SimplePeer objects
    localStream, \* WebRTCBaseManager.localStream (Undef = undefined)
    pend,        \* suspended awaits and armed timers
    kwm,         \* the KWM object: its fields, sockets, promises and tasks
    backoff,     \* KWM.reconnectAttempts and the delay of the reconnect timer armed last
    p2p,         \* the P2P Controller: connections, localStreams, callbacks, stream records, sub-connections
    turn,        \* the TURN refresher of KWM.connect: its timer, its requests in flight
    link,        \* two P2P Controllers at the ends of one peer connection and its data channel
    connected,   \* KWM: connected && socket && !closing
    steps        \* the number of steps taken so far

vars == <<user, channel, opts, group, peers, heap, pcs, localStream, pend, kwm, backoff, turn, p2p,
          link, connected, steps>>

----------------------------------------------------------------------------
(* Bounds *)

MaxSteps   == 6     \* steps of a run
MaxPending == 2     \* suspended awaits and timers outstanding at a time
MaxPcs     == 2     \* SimplePeer objects alive or referenced at a time
MaxKwmSteps == 9    \* steps of a run of the KWM object
MaxCalls   == 2     \* connect() promises pending when the application calls connect()
MaxSockets == 2     \* WebSocket objects a callback or timer can still act on
MaxSeq     == 2     \* websocketSequence: requests sent with a reply timeout

MaxFetches == 2     \* rtmTURN requests in flight at a time
MaxP2PSteps == 4    \* steps of a run of the P2P Controller
MaxConns   == 2     \* connections registered with the P2P Controller at a time
MaxAnnounce == 2    \* entries of an announce_streams list
MaxAttempts == 10   \* KWM.reconnectAttempts: reconnects in a row without a connection

(* Program constants *)

Version      == 20180703
P2PVersion   == 20190225
reconnectInterval    == 1000      \* KWMInit.options.reconnectInterval
maxReconnectInterval == 30000     \* KWMInit.options.maxReconnectInterval
reconnectSpreader    == 500       \* KWMInit.options.reconnectSpreader
reconnectFactor      == <<3, 2>>  \* KWMInit.options.reconnectFactor, 1.5 as a fraction

\* KWM.reconnectAttempts and the delay of the timer armed last (0: none yet)
Backoff(n) == [reconnectAttempts |-> n, reconnectTimeout |-> 0]

\* what the TURN refresher reads and writes: KWM.connected and KWM.closing, the
\* connect() awaiting rtmConnect, the socket ("none", "opening", "open"),
\* KWM.turnRefresher as the seconds its timer was armed with (0: no timer), the
\* rtmTURN requests in flight and whether webrtc.config.iceServers is the
\* TURN server received
Turn == [connected |-> FALSE, closing |-> FALSE, connecting |-> FALSE, socket |-> "none",
         turnRefresher |-> 0, fetches |-> 0, turnServer |-> FALSE]

(* Value universes *)

Undef      == "undef"                 \* JavaScript undefined where "" is a distinct value
KwmUser    == "alice"                 \* KWM.user, the identity given to connect()
SelfIds    == {"alice", "bud"}        \* ids a hello can carry
RemoteIds  == {"bob", "carol"}
GroupIds   == {"g"}
PipelineIds == {"p1"}
Streams    == {"s1", "s2"}            \* MediaStream objects
Tracks     == {"t1"}                  \* MediaStreamTrack objects
Channels   == {"ch1", "ch2"}
Hashes     == {"H1", "H2"}
Nonces     == {"n1"}                  \* results of getRandomString(12)
RemoteStates == {"x1", "x2"}          \* state nonces of the remote side
RemotePcIds == {"q1", "q2"}
Reasons    == {"", "hangup"}

\* lexicographic order of the strings used as user ids
Rank == [u \in SelfIds \cup RemoteIds \cup GroupIds \cup PipelineIds |->
            CASE u = "alice" -> 1 [] u = "bob" -> 2 [] u = "bud" -> 3
              [] u = "carol" -> 4 [] u = "g" -> 5 [] u = "p1" -> 6]

Falsy(x) == x \in {"", Undef}

EmptyMap == [x \in {} |-> 0]

Remove(f, k) == [x \in DOMAIN f \ {k} |-> f[x]]

Range(f) == {f[x] : x \in DOMAIN f}

\* the P2P Controller after construction; sent, events and err are what a
\* handler hands to a data channel, dispatches and throws
P2P == [connections |-> EmptyMap, localStreams |-> EmptyMap, callbacks |-> EmptyMap,
        srs |-> EmptyMap, binders |-> EmptyMap, spcs |-> EmptyMap, pend |-> <<>>,
        sent |-> <<>>, events |-> <<>>, err |-> ""]

\* two clients before a peer connection between them exists: the P2P
\* Controller of each and the data channel in each direction
Link == [a |-> P2P, b |-> P2P, toA |-> <<>>, toB |-> <<>>]

----------------------------------------------------------------------------
(* Data shapes *)

PeerRecord ==
    [id |-> "", group |-> "", hash |-> "", initiator |-> FALSE, reconnect |-> TRUE,
     pc |-> 0, ref |-> "", state |-> "", user |-> "", cid |-> "",
     transaction |-> "", rpcid |-> Undef,
     gid |-> "", gchannel |-> Undef, members |-> <<>>]

\* new GroupController(webrtc, id, record): a controller and its record are
\* created together and never separated, so the controller's fields (id,
\* channel, members) are kept in the heap cell of its record
GroupController(id, rec) == [rec EXCEPT !.gid = id, !.gchannel = Undef, !.members = <<>>]

NoGroupData == [present |-> FALSE, group |-> "", members |-> <<>>, reset |-> FALSE]
NoPipeline  == [present |-> FALSE, mode |-> "", pipeline |-> ""]

\* message.data of an inbound envelope; present = FALSE is data === undefined
NoData == [present |-> FALSE, accept |-> FALSE, state |-> "", reason |-> "",
           replaced |-> FALSE, group |-> NoGroupData, pipeline |-> NoPipeline]

\* an inbound envelope of type webrtc (IRTMTypeWebRTC) or error
Msg == [type |-> "webrtc", subtype |-> "", v |-> Version, initiator |-> FALSE,
        source |-> "", target |-> "", channel |-> "", group |-> "", hash |-> "",
        state |-> "", transaction |-> "", pcid |-> Undef, data |-> NoData]

ErrorMsg == [Msg EXCEPT !.type = "error", !.hash = Undef, !.channel = Undef]

\* closures: k is the kind, the other fields are what the closure captured
Closure(k) == [k |-> k, user |-> "", rid |-> 0, pc |-> 0, channel |-> "", initiator |-> FALSE]

----------------------------------------------------------------------------
(* The engine state as one value *)

St == [user |-> user, channel |-> channel, opts |-> opts, group |-> group,
       peers |-> peers, heap |-> heap, pcs |-> pcs, localStream |-> localStream,
       pend |-> pend,
       conn |-> connected, sent |-> <<>>, events |-> <<>>, toP2P |-> <<>>,
       err |-> "", ret |-> ""]

HasGroup(s) == s.group # 0

\* this.group, when set
Ctl(s) == s.heap[s.group]

FreshRid(s) == CHOOSE r \in 1..(Cardinality(DOMAIN s.heap) + 1) : r \notin DOMAIN s.heap

FreshPc(s) == CHOOSE p \in 1..(Cardinality(DOMAIN s.pcs) + 1) : p \notin DOMAIN s.pcs

Alloc(s, rid, rec) == [s EXCEPT !.heap = (rid :> rec) @@ @]

Emit(s, name, id) == [s EXCEPT !.events = Append(@, [event |-> name, id |-> id])]

\* this.p2p.<method>(pc, ...): a call into the P2P Controller
CallP2P(s, method, pc) == [s EXCEPT !.toP2P = Append(@, [method |-> method, pc |-> pc])]

Throw(s, e) == [s EXCEPT !.err = e]

Suspend(s, c) == [s EXCEPT !.pend = @ \cup {c}]

\* record.pc && record.pc.destroyed
PcDestroyed(s, rec) == rec.pc # 0 /\ s.pcs[rec.pc].destroyed

\* pc.destroy()
Destroy(s, pc) == [s EXCEPT !.pcs[pc].destroyed = TRUE]

----------------------------------------------------------------------------
(* Transport *)

\* KWM.sendWebSocketPayload: the payload goes out iff the socket is connected;
\* ok records whether socket.send ran (otherwise the promise is rejected)
sendWebSocketPayload(s, payload) ==
    [s EXCEPT !.sent = Append(@, [payload EXCEPT !.ok = s.conn])]

sendWebrtc(s, subtype, ch, rec, data, transaction) ==
    sendWebSocketPayload(s,
        [subtype |-> subtype, channel |-> ch, data |-> data,
         group |-> IF Falsy(rec.group) THEN "" ELSE rec.group,
         hash |-> rec.hash, initiator |-> rec.initiator, state |-> rec.state,
         target |-> rec.user, transaction |-> transaction, pcid |-> 0, ok |-> TRUE])

----------------------------------------------------------------------------
(* Hang up *)

\* WebRTCManager.sendHangup: always removes the table entry of record.id and
\* destroys the record's pc; sends webrtc_hangup only with a reason
sendHangup(s, ch, rid, reason) ==
    LET rec == s.heap[rid]
        s1  == [s EXCEPT !.peers = Remove(@, rec.id)]
        s2  == IF rec.pc # 0
               THEN [Destroy(s1, rec.pc) EXCEPT !.heap[rid].pc = 0]
               ELSE s1
        s3  == Emit(s2, "destroycall", rec.id)
    IN  IF reason # ""
        THEN sendWebrtc(s3, "webrtc_hangup", ch, s3.heap[rid],
                        [accept |-> FALSE, reason |-> reason, state |-> rec.ref], "")
        ELSE s3

\* the keys of a map in the order the model iterates them
RECURSIVE KeySeq(_)
KeySeq(S) ==
    IF S = {} THEN <<>>
    ELSE LET k == CHOOSE x \in S : \A y \in S : Rank[x] <= Rank[y]
         IN  <<k>> \o KeySeq(S \ {k})

\* faulty hangupEach: the iteration stops after the first entry
hangupEach_FirstOnly(s, ch, keys, reason) ==
    IF keys = <<>> THEN s
    ELSE sendHangup(s, ch, s.peers[Head(keys)], reason)

RECURSIVE hangupEach(_, _, _, _)
hangupEach(s, ch, keys, reason) ==
    IF keys = <<>> THEN s
    ELSE hangupEach(sendHangup(s, ch, s.peers[Head(keys)], reason), ch, Tail(keys), reason)

\* faulty doHangup: the hangup of all leaves channelOptions as they are
doHangup_KeepsOptions(s, u, reason) ==
    IF u = ""
    THEN LET ch == s.channel
             g  == s.group
             s1 == [s EXCEPT !.channel = "", !.group = 0]
             s2 == IF g # 0 THEN sendHangup(s1, ch, g, reason) ELSE s1
             s3 == hangupEach(s2, ch, KeySeq(DOMAIN s2.peers), reason)
         IN  [s3 EXCEPT !.ret = ch]
    ELSE IF u \notin DOMAIN s.peers
         THEN Throw(s, "unknown peer")
         ELSE [sendHangup(s, s.channel, s.peers[u], reason) EXCEPT !.ret = s.channel]

\* WebRTCManager.doHangup
doHangup(s, u, reason) ==
    IF u = ""
    THEN LET ch == s.channel
             g  == s.group
             s1 == [s EXCEPT !.channel = "", !.opts = 0, !.group = 0]
             s2 == IF g # 0 THEN sendHangup(s1, ch, g, reason) ELSE s1
             s3 == hangupEach(s2, ch, KeySeq(DOMAIN s2.peers), reason)
         IN  [s3 EXCEPT !.ret = ch]
    ELSE IF u \notin DOMAIN s.peers
         THEN Throw(s, "unknown peer")
         ELSE [sendHangup(s, s.channel, s.peers[u], reason) EXCEPT !.ret = s.channel]

----------------------------------------------------------------------------
(* Peer connections *)

\* faulty computeInitiator: equal ids give false
computeInitiator_TieFalse(s, rec) ==
    IF s.user = "" THEN FALSE
    ELSE IF Rank[s.user] <= Rank[rec.user] THEN FALSE ELSE TRUE

\* WebRTCManager.computeInitiator
computeInitiator(s, rec) ==
    IF s.user = "" THEN FALSE
    ELSE IF Rank[s.user] < Rank[rec.user] THEN FALSE ELSE TRUE

\* the recover closure of getPeerConnection, armed with setTimeout(500)
recover(s, initiator, rid, pc) ==
    Suspend(s, [Closure("recover") EXCEPT !.rid = rid, !.pc = pc, !.initiator = initiator])

\* pc.on('signal'): a signal of the current pc of the record is sent as a
\* webrtc_signal envelope; a failed send arms the recovery
onSignal(s, initiator, rid, pc, data) ==
    IF s.heap[rid].pc # pc THEN s
    ELSE LET rec == s.heap[rid]
             s1  == sendWebSocketPayload(s,
                        [subtype |-> "webrtc_signal", channel |-> s.channel, data |-> data,
                         group |-> rec.group, hash |-> rec.hash, initiator |-> FALSE,
                         state |-> rec.state, target |-> rec.user, transaction |-> "",
                         pcid |-> pc, ok |-> TRUE])
         IN  IF s.conn THEN s1 ELSE recover(s1, initiator, rid, rec.pc)

\* WebRTCBaseManager.isLocalStreamTarget
isLocalStreamTarget(s, rid) == s.opts = 0 \/ s.opts = rid

\* the streams a new pc is constructed with
initialStreams(s, rid) ==
    IF isLocalStreamTarget(s, rid) /\ s.localStream # Undef THEN {s.localStream} ELSE {}

\* WebRTCBaseManager.getPeerConnection: a new SimplePeer bound to the record
getPeerConnection(s, initiator, rid, rpcid) ==
    LET pc == FreshPc(s)
        s1 == [s EXCEPT !.pcs = (pc :> [destroyed |-> FALSE, initiator |-> initiator,
                                       media |-> initialStreams(s, rid)]) @@ @,
                        !.heap[rid].pc = pc,
                        !.heap[rid].rpcid = rpcid]
    IN  Emit(CallP2P(s1, "registerConnection", pc), "pc.new", s.heap[rid].id)

\* faulty startPeerConnection: the initiator emits the synthetic signal too
startPeerConnection_AlwaysSignal(s, initiator, rid, rpcid) ==
    LET s1 == getPeerConnection(s, initiator, rid, rpcid)
    IN  onSignal(s1, initiator, rid, s1.heap[rid].pc, [renegotiate |-> TRUE])

\* getPeerConnection followed by the synthetic signal of the side that is
\* not the initiator: newpc.emit('signal', {renegotiate: true})
startPeerConnection(s, initiator, rid, rpcid) ==
    LET s1 == getPeerConnection(s, initiator, rid, rpcid)
    IN  IF ~initiator
        THEN onSignal(s1, initiator, rid, s1.heap[rid].pc, [renegotiate |-> TRUE])
        ELSE s1

----------------------------------------------------------------------------
(* Public operations: the part that runs before the first suspension *)

\* faulty doCallGuard: the peer table is not looked at
doCallGuard_ChannelOnly(s, u) ==
    IF s.channel # "" THEN "already have a channel" ELSE ""

\* the two guards of doCall
doCallGuard(s, u) ==
    IF s.channel # "" THEN "already have a channel"
    ELSE IF u \in DOMAIN s.peers THEN "peer already exists"
    ELSE ""

\* WebRTCManager.doCall up to the await of the reply
doCall(s, u, nonce) ==
    IF doCallGuard(s, u) # "" THEN Throw(s, doCallGuard(s, u))
    ELSE LET rid == FreshRid(s)
             rec == [PeerRecord EXCEPT !.id = u, !.initiator = TRUE, !.user = u, !.state = nonce]
             s1  == [Alloc(s, rid, rec) EXCEPT !.peers = (u :> rid) @@ @]
             s2  == Emit(s1, "newcall", u)
             s3  == sendWebrtc(s2, "webrtc_call", "", rec, NoData, "")
         IN  IF s.conn
             THEN Suspend(s3, [Closure("doCall") EXCEPT !.user = u, !.rid = rid])
             ELSE Throw(s3, "no_connection")

\* the two guards of doAnswer and doReject
peerGuard(s, u) ==
    IF s.channel = "" THEN "no channel"
    ELSE IF u \notin DOMAIN s.peers THEN "no matching peer"
    ELSE ""

\* the payload data of doAnswer
answerData(rec) == [accept |-> TRUE, reason |-> Undef, state |-> rec.ref]

\* WebRTCManager.doAnswer up to the await of the send
doAnswer(s, u) ==
    IF peerGuard(s, u) # "" THEN Throw(s, peerGuard(s, u))
    ELSE LET rid == s.peers[u]
             rec == s.heap[rid]
             s1  == Emit(s, "newcall", rec.id)
             s2  == sendWebrtc(s1, "webrtc_call", s.channel, rec, answerData(rec), rec.transaction)
         IN  IF s.conn
             THEN Suspend(s2, [Closure("doAnswer") EXCEPT !.user = u, !.rid = rid])
             ELSE Throw(s2, "no_connection")

\* faulty clearTransaction: the transaction stays in the record
clearTransaction_Keeps(rec) == rec

\* what doAnswer does to record.transaction once the send has resolved
clearTransaction(rec) == [rec EXCEPT !.transaction = ""]

\* WebRTCManager.doAnswer after the await
doAnswerResume(s, c) ==
    LET s1 == [s EXCEPT !.heap[c.rid] = clearTransaction(@)]
    IN  IF c.user \in DOMAIN s.peers /\ s.peers[c.user] = c.rid
        THEN [s1 EXCEPT !.ret = s.channel]
        ELSE Throw(s1, "unknown or invalid peer")

\* faulty rejectHangup: the hangup carries a reason
rejectHangup_WithReason(s, rid) == sendHangup(s, s.channel, rid, "reject")

\* the hangup doReject performs after its send
rejectHangup(s, rid) == sendHangup(s, s.channel, rid, "")

\* WebRTCManager.doReject
doReject(s, u, reason) ==
    IF peerGuard(s, u) # "" THEN Throw(s, peerGuard(s, u))
    ELSE LET rid == s.peers[u]
             rec == s.heap[rid]
             s1  == sendWebrtc(s, "webrtc_call", s.channel, rec,
                               [accept |-> FALSE, reason |-> reason, state |-> rec.ref],
                               rec.transaction)
             s2  == [s1 EXCEPT !.heap[rid].transaction = ""]
         IN  [rejectHangup(s2, rid) EXCEPT !.ret = s.channel]

\* WebRTCManager.doGroup up to the await of the reply; the group record is
\* not in the peer table, the closure holds it
doGroup(s, g, nonce) ==
    IF s.channel # "" THEN Throw(s, "already have a channel")
    ELSE IF HasGroup(s) THEN Throw(s, "already have a group")
    ELSE LET rid == FreshRid(s)
             rec == [PeerRecord EXCEPT !.user = g, !.group = g, !.state = nonce]
             s1  == sendWebrtc(Alloc(s, rid, rec), "webrtc_group", "", rec, NoData, "")
         IN  IF s.conn
             THEN Suspend(s1, [Closure("doGroup") EXCEPT !.user = g, !.rid = rid])
             ELSE Throw(s1, "no_connection")

\* WebRTCManager.refreshGroup up to the await of the reply
refreshGroup(s, nonce) ==
    LET rid == s.group
        s1  == [s EXCEPT !.heap[rid].state = nonce]
        s2  == sendWebrtc(s1, "webrtc_group", "", s1.heap[rid], NoData, "")
    IN  IF s.conn
        THEN Suspend(s2, [Closure("refreshGroup") EXCEPT !.rid = rid])
        ELSE s2

----------------------------------------------------------------------------
(* Local media: a pc's media is the set of streams and tracks added to it *)

\* the pcs of the table's records that satisfy test
PcsOf(s, test(_)) ==
    {s.heap[s.peers[k]].pc : k \in {u \in DOMAIN s.peers :
                                      s.heap[s.peers[u]].pc # 0 /\ test(s.peers[u])}}

\* pc.removeStream(old) and pc.addStream(stream), each if the stream is set
replaceStream(pc, old, stream) ==
    [pc EXCEPT !.media = (@ \ {old}) \cup (IF stream # Undef THEN {stream} ELSE {})]

\* WebRTCManager.setLocalStream
setLocalStream(s, stream) ==
    IF s.localStream = stream THEN s
    ELSE LET ps == PcsOf(s, LAMBDA rid : isLocalStreamTarget(s, rid))
         IN  [s EXCEPT !.localStream = stream,
                       !.pcs = [p \in DOMAIN s.pcs |->
                                   IF p \in ps THEN replaceStream(s.pcs[p], s.localStream, stream)
                                   ELSE s.pcs[p]]]

\* WebRTCManager.addLocalStreamTrack: pc.addTrack on every record with a pc
addLocalStreamTrack(s, track, stream) ==
    IF s.localStream # stream THEN Throw(s, "wrong stream")
    ELSE LET ps == PcsOf(s, LAMBDA rid : TRUE)
         IN  [s EXCEPT !.pcs = [p \in DOMAIN s.pcs |->
                                   IF p \in ps THEN [s.pcs[p] EXCEPT !.media = @ \cup {track}]
                                   ELSE s.pcs[p]]]

\* pc.removeTrack: a track that was never added destroys the pc
removeTrack(pc, track) ==
    IF track \in pc.media THEN [pc EXCEPT !.media = @ \ {track}]
    ELSE [pc EXCEPT !.destroyed = TRUE]

\* WebRTCManager.removeLocalStreamTrack: pc.removeTrack on every record with a pc
removeLocalStreamTrack(s, track, stream) ==
    IF s.localStream # stream THEN Throw(s, "wrong stream")
    ELSE LET ps == PcsOf(s, LAMBDA rid : TRUE)
         IN  [s EXCEPT !.pcs = [p \in DOMAIN s.pcs |->
                                   IF p \in ps THEN removeTrack(s.pcs[p], track)
                                   ELSE s.pcs[p]]]

----------------------------------------------------------------------------
(* Mesh and Group Coordinator *)

SeqRange(q) == {q[i] : i \in DOMAIN q}

\* the users of the list that are not ourselves and have no table entry
RECURSIVE meshMissing(_, _)
meshMissing(s, users) ==
    IF users = <<>> THEN <<>>
    ELSE (IF Head(users) # s.user /\ Head(users) \notin DOMAIN s.peers
          THEN <<Head(users)>> ELSE <<>>) \o meshMissing(s, Tail(users))

\* a table entry doMesh brings back: no pc, or a destroyed one
meshDead(s, rec) == rec.pc = 0 \/ s.pcs[rec.pc].destroyed

\* doMesh: the users whose record is removed (normal peers not in the list)
meshRemoved(s, all) ==
    {s.heap[s.peers[k]].user : k \in {x \in DOMAIN s.peers :
        s.heap[s.peers[x]].cid = "" /\ s.heap[s.peers[x]].user \notin all}}

\* doMesh: the users that get a new record
meshAdded(s, users, all) ==
    meshMissing(s, users) \o
    KeySeq({s.heap[s.peers[k]].user : k \in {x \in DOMAIN s.peers :
        /\ s.heap[s.peers[x]].cid = ""
        /\ s.heap[s.peers[x]].user \in all
        /\ meshDead(s, s.heap[s.peers[x]])}})

\* doMesh "Remove first": this.doHangup(user, ''), a rejection is not awaited here
RECURSIVE meshRemove(_, _)
meshRemove(s, users) ==
    IF users = <<>> THEN s
    ELSE meshRemove([doHangup(s, Head(users), "") EXCEPT !.err = "", !.ret = ""], Tail(users))

\* doMesh "Add second": a new record with the group's hash, then doAnswer,
\* whose failure is caught
RECURSIVE meshAdd(_, _, _)
meshAdd(s, users, grec) ==
    IF users = <<>> THEN s
    ELSE LET u   == Head(users)
             rid == FreshRid(s)
             rec == [PeerRecord EXCEPT !.id = u, !.user = u, !.group = grec.group,
                        !.hash = grec.hash,
                        !.ref = IF Falsy(grec.group) THEN "" ELSE grec.group,
                        !.state = IF Falsy(grec.group) THEN "" ELSE grec.group]
             s1  == [Alloc(s, rid, rec) EXCEPT !.peers = (u :> rid) @@ @]
         IN  meshAdd([doAnswer(s1, u) EXCEPT !.err = "", !.ret = ""], Tail(users), grec)

\* faulty doMesh: the obsolete peers are removed before the list is tested for self
doMesh_RemovesFirst(s, users, grid) ==
    IF s.user = "" THEN Throw(s, "no user")
    ELSE IF s.channel = "" THEN Throw(s, "no channel")
    ELSE LET all == SeqRange(users) \ {s.user}
             s1  == meshRemove(s, KeySeq(meshRemoved(s, all)))
         IN  IF s.user \notin SeqRange(users) THEN Throw(s1, "mesh without self")
             ELSE [meshAdd(s1, meshAdded(s, users, all), s.heap[grid]) EXCEPT !.ret = s.channel]

\* WebRTCManager.doMesh
doMesh(s, users, grid) ==
    IF s.user = "" THEN Throw(s, "no user")
    ELSE IF s.channel = "" THEN Throw(s, "no channel")
    ELSE LET all == SeqRange(users) \ {s.user}
         IN  IF s.user \notin SeqRange(users) THEN Throw(s, "mesh without self")
             ELSE LET s1 == meshRemove(s, KeySeq(meshRemoved(s, all)))
                  IN  [meshAdd(s1, meshAdded(s, users, all), s.heap[grid]) EXCEPT !.ret = s.channel]

\* members.sort()
sortMembers(M) == KeySeq(M)

\* GroupController.updateMembers after the reset: s0 is the engine once the
\* awaited doMesh([], record) has settled; when that threw, the rest is not run
establishMesh(s0, members) ==
    IF s0.err # "" THEN [s0 EXCEPT !.err = "", !.ret = ""]
    ELSE [doMesh([s0 EXCEPT !.heap[s0.group].members = members], members, s0.group)
             EXCEPT !.err = "", !.ret = ""]

\* GroupController.updateMembers
updateMembers(s, members, reset) ==
    establishMesh(IF reset THEN doMesh(s, <<>>, s.group) ELSE s, members)

\* GroupController.handleWebRTCMessage
groupHandleWebRTCMessage(s, m) ==
    IF m.subtype # "webrtc_channel" THEN s
    ELSE IF ~Falsy(Ctl(s).gchannel) /\ m.channel # Ctl(s).gchannel THEN s
    ELSE IF ~m.data.present \/ m.data.group.group # Ctl(s).gid THEN s
    ELSE updateMembers([s EXCEPT !.heap[s.group].gchannel = m.channel],
                       sortMembers(m.data.group.members), m.data.group.reset)

\* handleWebRTCExtraChannelData, the pipeline part: s1 is the engine after
\* the group part
handlePipeline(s1, pl, nonce) ==
    IF pl.present /\ pl.mode = "mcu-forward" /\ HasGroup(s1)
       /\ pl.pipeline \notin DOMAIN s1.peers
    THEN LET rid == FreshRid(s1)
             rec == [PeerRecord EXCEPT !.id = pl.pipeline, !.user = pl.pipeline,
                        !.state = nonce, !.ref = pl.pipeline,
                        !.hash = Ctl(s1).hash, !.cid = pl.mode]
         IN  [Alloc(s1, rid, rec) EXCEPT !.opts = rid, !.peers = (rec.id :> rid) @@ @]
    ELSE s1

\* WebRTCManager.handleWebRTCExtraChannelData
handleWebRTCExtraChannelData(s, m, nonce) ==
    IF ~m.data.present THEN s
    ELSE IF m.data.replaced THEN Suspend(s, Closure("replaced"))
    ELSE handlePipeline(IF m.data.group.present /\ HasGroup(s)
                        THEN groupHandleWebRTCMessage(s, m) ELSE s,
                        m.data.pipeline, nonce)

----------------------------------------------------------------------------
(* Inbound webrtc envelopes *)

\* faulty isBusy: busy only while a channel is active and a peer is stored
isBusy_WithPeers(s) == s.channel # "" /\ DOMAIN s.peers # {}

\* the busy test of an incoming call
isBusy(s) == s.channel # ""

\* the answer to an incoming call while busy
busyData(rec) == [accept |-> FALSE, reason |-> "reject_busy", state |-> rec.ref]

\* an incoming call is taken in: the channel is adopted and the record stored
\* (replacing one stored for the same id); s1 is the engine after the extra
\* channel data
takeCall(s1, m, rec) ==
    LET rid == FreshRid(s1)
    IN  Emit([Alloc(s1, rid, rec) EXCEPT !.channel = m.channel,
                                         !.peers = (rec.id :> rid) @@ @],
             "incomingcall", rec.id)

\* webrtc_call with initiator = true: a remote caller
handleIncomingCall(s, m, n1, n2) ==
    IF m.source = "" THEN s
    ELSE IF m.source \in DOMAIN s.peers /\ m.target = ""
    THEN Suspend(s, [Closure("silentHangup") EXCEPT !.rid = s.peers[m.source],
                                                    !.channel = m.channel])
    ELSE LET rec == [PeerRecord EXCEPT !.id = m.source, !.user = m.source, !.state = n1,
                        !.ref = m.state, !.hash = m.hash, !.transaction = m.transaction]
         IN  IF isBusy(s)
             THEN sendWebrtc(s, "webrtc_call", m.channel, rec, busyData(rec), rec.transaction)
             ELSE takeCall(IF m.data.present THEN handleWebRTCExtraChannelData(s, m, n2) ELSE s,
                           m, rec)

\* faulty hashAccepted: the exchange does not ask for an accepted call
hashAccepted_Unaccepted(s, rec, m) ==
    \/ rec.hash = m.hash
    \/ /\ HasGroup(s)
       /\ ~Falsy(rec.group)
       /\ ~Falsy(m.group)
       /\ rec.group = m.group
       /\ rec.group = Ctl(s).gid

\* the hash test of a call reply, with the group hash exchange
hashAccepted(s, rec, m) ==
    \/ rec.hash = m.hash
    \/ /\ HasGroup(s)
       /\ ~Falsy(rec.group)
       /\ ~Falsy(m.group)
       /\ rec.group = m.group
       /\ rec.group = Ctl(s).gid
       /\ m.data.accept

\* faulty handleCallReply: the state of the reply is not compared
handleCallReply_AnyState(s, m) ==
    IF m.source \notin DOMAIN s.peers THEN s
    ELSE LET rid == s.peers[m.source]
             rec == s.heap[rid]
         IN  IF ~hashAccepted(s, rec, m) THEN s
             ELSE LET s1 == [s EXCEPT !.heap[rid].hash = m.hash]
                  IN  IF ~m.data.accept THEN Emit(s1, "abortcall", rec.id)
                      ELSE LET s2 == [s1 EXCEPT !.heap[rid].ref = m.state]
                               s3 == startPeerConnection(s2, computeInitiator(s2, rec), rid, Undef)
                           IN  Emit(s3, "outgoingcall", rec.id)

\* webrtc_call with initiator = false: the callee's answer
handleCallReply(s, m) ==
    IF m.source \notin DOMAIN s.peers THEN s
    ELSE LET rid == s.peers[m.source]
             rec == s.heap[rid]
         IN  IF rec.state # m.data.state THEN s
             ELSE IF ~hashAccepted(s, rec, m) THEN s
             ELSE LET s1 == [s EXCEPT !.heap[rid].hash = m.hash]
                  IN  IF ~m.data.accept THEN Emit(s1, "abortcall", rec.id)
                      ELSE LET s2 == [s1 EXCEPT !.heap[rid].ref = m.state]
                               s3 == startPeerConnection(s2, computeInitiator(s2, rec), rid, Undef)
                           IN  Emit(s3, "outgoingcall", rec.id)

\* webrtc_channel
handleChannel(s, m, nonce) ==
    IF s.channel # "" /\ ~m.data.present THEN s
    ELSE handleWebRTCExtraChannelData([s EXCEPT !.channel = m.channel], m, nonce)

\* the state test shared by webrtc_hangup and webrtc_signal
refMatches(rec, m) == ~(rec.ref # m.state /\ rec.ref # "")

\* faulty handleHangup: the state of the envelope is not compared
handleHangup_AnyRef(s, m) ==
    IF Falsy(m.channel) \/ s.channel # m.channel THEN s
    ELSE IF ~m.data.present THEN s
    ELSE IF m.source \notin DOMAIN s.peers THEN s
    ELSE Emit(sendHangup(s, s.channel, s.peers[m.source], ""), "hangup", m.source)

\* webrtc_hangup
handleHangup(s, m) ==
    IF Falsy(m.channel) \/ s.channel # m.channel THEN s
    ELSE IF ~m.data.present THEN s
    ELSE IF m.source \notin DOMAIN s.peers THEN s
    ELSE LET rid == s.peers[m.source]
         IN  IF ~refMatches(s.heap[rid], m) THEN s
             ELSE Emit(sendHangup(s, s.channel, rid, ""), "hangup", m.source)

\* faulty handleSignal: a pc with another remote pc id is kept and rebound
handleSignal_Rebinds(s, m) ==
    IF Falsy(m.channel) \/ s.channel # m.channel THEN s
    ELSE IF ~m.data.present THEN s
    ELSE IF m.source \notin DOMAIN s.peers THEN s
    ELSE LET rid == s.peers[m.source]
             rec == s.heap[rid]
         IN  IF ~refMatches(rec, m) THEN s
             ELSE LET s1 == IF rec.pc # 0 THEN [s EXCEPT !.heap[rid].rpcid = m.pcid] ELSE s
                      s2 == IF s1.heap[rid].pc = 0
                            THEN getPeerConnection(s1, computeInitiator(s1, rec), rid, m.pcid)
                            ELSE s1
                  IN  IF PcDestroyed(s2, s2.heap[rid])
                      THEN Throw(s2, "cannot signal after peer is destroyed")
                      ELSE Emit(s2, "pc.signal()", rec.id)

\* webrtc_signal: reconcile the remote pc id, create the pc if there is none,
\* feed the payload to it (signal() of a destroyed SimplePeer throws)
handleSignal(s, m) ==
    IF Falsy(m.channel) \/ s.channel # m.channel THEN s
    ELSE IF ~m.data.present THEN s
    ELSE IF m.source \notin DOMAIN s.peers THEN s
    ELSE LET rid == s.peers[m.source]
             rec == s.heap[rid]
         IN  IF ~refMatches(rec, m) THEN s
             ELSE LET s1 == IF m.pcid = rec.rpcid THEN s
                            ELSE IF rec.rpcid = Undef
                            THEN (IF rec.pc # 0 /\ m.pcid # Undef
                                  THEN [s EXCEPT !.heap[rid].rpcid = m.pcid] ELSE s)
                            ELSE (IF rec.pc # 0
                                  THEN [Destroy(s, rec.pc) EXCEPT !.heap[rid].pc = 0] ELSE s)
                      s2 == IF s1.heap[rid].pc = 0
                            THEN getPeerConnection(s1, computeInitiator(s1, rec), rid, m.pcid)
                            ELSE s1
                  IN  IF PcDestroyed(s2, s2.heap[rid])
                      THEN Throw(s2, "cannot signal after peer is destroyed")
                      ELSE Emit(s2, "pc.signal()", rec.id)

\* WebRTCManager.handleWebRTCMessage
handleWebRTCMessage(s, m, n1, n2) ==
    IF m.v < Version THEN s
    ELSE CASE m.subtype = "webrtc_call" ->
                 IF m.initiator THEN handleIncomingCall(s, m, n1, n2) ELSE handleCallReply(s, m)
           [] m.subtype = "webrtc_channel" -> handleChannel(s, m, n2)
           [] m.subtype = "webrtc_hangup"  -> handleHangup(s, m)
           [] m.subtype = "webrtc_signal"  -> handleSignal(s, m)
           [] OTHER -> s

\* WebRTCManager.handleReplyMessage; sCb is s after the caller's successCb
handleReplyMessage(s, sCb, m, n1, n2) ==
    IF m.type = "error" THEN Throw(s, "KWMErrorEvent")
    ELSE IF m.type = "webrtc" THEN handleWebRTCMessage(sCb, m, n1, n2)
    ELSE sCb

\* handleHello once a call of another user has been hung up: the user is set
\* and a group we are a member of is refreshed
setUser(s1, u, nonce) ==
    IF HasGroup(s1) /\ u \in SeqRange(Ctl(s1).members)
    THEN refreshGroup([s1 EXCEPT !.user = u], nonce)
    ELSE [s1 EXCEPT !.user = u]

\* faulty handleHello: the user is replaced without hanging up
handleHello_NoHangup(s, id, nonce) ==
    setUser(s, IF id # "" THEN id ELSE KwmUser, nonce)

\* WebRTCManager.handleHello
handleHello(s, id, nonce) ==
    LET u == IF id # "" THEN id ELSE KwmUser
    IN  setUser(IF s.user # "" /\ s.channel # "" /\ u # s.user
                THEN [doHangup(s, "", "hangup") EXCEPT !.ret = ""] ELSE s,
                u, nonce)

----------------------------------------------------------------------------
(* Continuations *)

\* faulty stillCurrent: any record stored for the user passes
stillCurrent_AnyRecord(s, c) == c.user \in DOMAIN s.peers

\* the record a doCall created is still the one stored for the user
stillCurrent(s, c) == c.user \in DOMAIN s.peers /\ s.peers[c.user] = c.rid

\* faulty assignHash: the reply's hash is not stored
assignHash_Skipped(rec, m) == rec

\* the successCb of doCall
assignHash(rec, m) == [rec EXCEPT !.hash = m.hash]

\* return this.channel, unless the reply handling threw
returnChannel(r) == IF r.err # "" THEN r ELSE [r EXCEPT !.ret = r.channel]

\* WebRTCManager.doCall after the await, with the reply
doCallResume(s, c, m, n1, n2) ==
    IF ~stillCurrent(s, c) THEN Throw(s, "unknown or invalid peer")
    ELSE IF ~Falsy(s.heap[c.rid].hash) THEN Throw(s, "record already has a hash")
    ELSE returnChannel(
             handleReplyMessage(s, [s EXCEPT !.heap[c.rid] = assignHash(@, m)], m, n1, n2))

\* WebRTCManager.doGroup after the await, with the reply
doGroupResume(s, c, m, n1, n2) ==
    LET s1 == [s EXCEPT !.heap[c.rid].hash = m.hash]
    IN  IF s1.channel = "" /\ ~HasGroup(s1)
        THEN returnChannel(
                 handleReplyMessage(s1,
                     [s1 EXCEPT !.group = c.rid, !.heap[c.rid] = GroupController(c.user, @)],
                     m, n1, n2))
        ELSE [s1 EXCEPT !.ret = s1.channel]

\* WebRTCManager.refreshGroup after the await, with the reply; c.rid is the
\* controller the call was made for
refreshGroupResume(s, c, m, n1, n2) ==
    LET s1  == [s EXCEPT !.heap[c.rid].hash = m.hash]
        gch == s.heap[c.rid].gchannel
    IN  IF s1.channel = gch /\ gch = m.channel
        THEN returnChannel(handleReplyMessage(s1, [s1 EXCEPT !.group = c.rid], m, n1, n2))
        ELSE [s1 EXCEPT !.ret = s1.channel]

\* a reply timer expires: the awaiting operation is rejected with 'timeout'
replyTimeout(s, c) == Throw(s, "timeout")

\* the timer of a silently cleared incoming call: sendHangup(message.channel, record, '')
silentHangup(s, c) == sendHangup(s, c.channel, c.rid, "")

\* the timer of a replaced call: doHangup(undefined, '')
replacedHangup(s) == doHangup(s, "", "")

\* faulty recoverTimer: the pc of the record is not compared
recoverTimer_AnyPc(s, c) ==
    LET rec == s.heap[c.rid]
    IN  IF ~rec.reconnect THEN s
        ELSE startPeerConnection(IF rec.pc # 0 THEN Destroy(s, rec.pc) ELSE s,
                                 c.initiator, c.rid, Undef)

\* the recover timer of getPeerConnection
recoverTimer(s, c) ==
    LET rec == s.heap[c.rid]
    IN  IF rec.pc # 0 /\ c.pc # rec.pc THEN s
        ELSE IF ~rec.reconnect THEN s
        ELSE startPeerConnection(IF rec.pc # 0 THEN Destroy(s, rec.pc) ELSE s,
                                 c.initiator, c.rid, Undef)

\* pc.on('error'): dispatched for the current pc of the record, with the
\* recovery armed for a record that reconnects
onError(s, rid, pc) ==
    IF s.heap[rid].pc # pc THEN s
    ELSE LET rec == s.heap[rid]
             s1  == Emit(s, "pc.error", rec.id)
         IN  IF ~rec.reconnect THEN s1
             ELSE recover(s1, s.pcs[pc].initiator, rid, rec.pc)

\* faulty onClose: the close of any pc of the record unbinds its current pc
onClose_AnyPc(s, rid, pc) ==
    [CallP2P(Emit(s, "pc.closed", s.heap[rid].id), "handleClose", pc)
        EXCEPT !.heap[rid].pc = 0]

\* pc.on('close')
onClose(s, rid, pc) ==
    IF s.heap[rid].pc # pc THEN s
    ELSE [CallP2P(Emit(s, "pc.closed", s.heap[rid].id), "handleClose", pc)
             EXCEPT !.heap[rid].pc = 0]

\* pc.on('connect')
onConnect(s, rid, pc) ==
    IF s.heap[rid].pc # pc THEN s
    ELSE Emit(CallP2P(s, "handleConnect", pc), "pc.connect", s.heap[rid].id)

\* pc.on('data')
onData(s, rid, pc) ==
    IF s.heap[rid].pc # pc THEN s
    ELSE CallP2P(s, "handleData", pc)

\* pc.on(name) for track, stream, iceStateChange and signalingStateChange:
\* the event is passed on to the application as pc.<name>
onPcEvent(s, name, rid, pc) ==
    IF s.heap[rid].pc # pc THEN s
    ELSE Emit(s, name, s.heap[rid].id)

----------------------------------------------------------------------------
(* Envelopes the server can deliver *)

ReplacedData == [NoData EXCEPT !.present = TRUE, !.replaced = TRUE]

PipelineData(mode) ==
    [NoData EXCEPT !.present = TRUE,
                   !.pipeline = [present |-> TRUE, mode |-> mode, pipeline |-> "p1"]]

GroupData(g, M, reset) ==
    [NoData EXCEPT !.present = TRUE,
                   !.group = [present |-> TRUE, group |-> g, members |-> M, reset |-> reset]]

IncomingCall(src, tgt, ch, d) ==
    [Msg EXCEPT !.subtype = "webrtc_call", !.initiator = TRUE, !.source = src,
                !.target = tgt, !.channel = ch, !.hash = "H1", !.state = "x1",
                !.transaction = "t1", !.data = d]

CallReply(src, h, g, a, st) ==
    [Msg EXCEPT !.subtype = "webrtc_call", !.source = src, !.channel = "ch1",
                !.hash = h, !.state = "x1", !.group = g,
                !.data = [NoData EXCEPT !.present = TRUE, !.accept = a, !.state = st]]

ChannelMsg(ch, d) ==
    [Msg EXCEPT !.subtype = "webrtc_channel", !.channel = ch, !.hash = "H1", !.data = d]

HangupMsg(src, ch, st, d) ==
    [Msg EXCEPT !.subtype = "webrtc_hangup", !.source = src, !.channel = ch, !.state = st,
                !.data = d]

SignalMsg(src, ch, st, q) ==
    [Msg EXCEPT !.subtype = "webrtc_signal", !.source = src, !.channel = ch, !.state = st,
                !.pcid = q, !.data = [NoData EXCEPT !.present = TRUE]]

OutdatedMsg(m) == [m EXCEPT !.v = Version - 1]

\* the envelopes of one-to-one calls
CallMsgs ==
    {IncomingCall(src, KwmUser, ch, NoData) : src \in RemoteIds, ch \in Channels}
    \cup {IncomingCall(src, "", "ch1", NoData) : src \in RemoteIds}
    \cup {IncomingCall("", KwmUser, "ch1", NoData), IncomingCall("bob", KwmUser, "ch1", ReplacedData),
          OutdatedMsg(IncomingCall("bob", KwmUser, "ch1", NoData))}
    \cup {CallReply(src, "H1", "", a, st) : src \in RemoteIds, a \in BOOLEAN,
                                            st \in Nonces \cup {"stale"}}
    \cup {CallReply(src, "H2", "", TRUE, "n1") : src \in RemoteIds}
    \cup {ChannelMsg(ch, d) : ch \in Channels, d \in {NoData, ReplacedData}}
    \cup {HangupMsg(src, "ch1", st, [NoData EXCEPT !.present = TRUE]) :
            src \in RemoteIds, st \in RemoteStates}
    \cup {HangupMsg("bob", "ch2", "x1", [NoData EXCEPT !.present = TRUE]),
          HangupMsg("bob", "ch1", "x1", NoData),
          HangupMsg("bob", "", "x1", [NoData EXCEPT !.present = TRUE])}
    \cup {SignalMsg("bob", "ch1", "x1", q) : q \in RemotePcIds}
    \cup {SignalMsg("carol", "ch1", "x1", "q1"), SignalMsg("bob", "ch1", "x1", Undef),
          [SignalMsg("bob", "ch1", "x1", "q1") EXCEPT !.data = NoData]}

\* what the server answers a webrtc_call request with
CallReplyMsgs ==
    {ChannelMsg(ch, NoData) : ch \in Channels}
    \cup {ChannelMsg("ch1", ReplacedData), OutdatedMsg(ChannelMsg("ch1", NoData))}
    \cup {CallReply(src, "H1", "", a, st) : src \in RemoteIds, a \in BOOLEAN,
                                            st \in Nonces \cup {"stale"}}
    \cup {ErrorMsg}

MemberSets == {{"alice", "bob"}, {"alice", "carol"}, {"alice", "bob", "carol"}, {"bob", "carol"},
               {"bob", "bud", "carol"}}

GroupChannelMsgs ==
    {ChannelMsg(ch, GroupData(g, M, r)) : ch \in Channels, g \in GroupIds, M \in MemberSets,
                                          r \in BOOLEAN}

\* the envelopes of a group call
MeshMsgs ==
    GroupChannelMsgs
    \cup {ChannelMsg("ch1", d) : d \in {NoData, ReplacedData, PipelineData("mcu-forward"),
                                       PipelineData("other")}}
    \cup {CallReply(src, h, "g", a, "g") : src \in RemoteIds, h \in Hashes, a \in BOOLEAN}
    \cup {HangupMsg(src, "ch1", "x1", [NoData EXCEPT !.present = TRUE]) : src \in RemoteIds}

\* what the server answers a webrtc_group request with
GroupReplyMsgs ==
    {m \in GroupChannelMsgs : m.channel = "ch1" /\ ~m.data.group.reset}
    \cup {[ChannelMsg("ch1", GroupData("g", {"alice", "bob"}, FALSE)) EXCEPT !.hash = "H2"]}
    \cup {OutdatedMsg(ChannelMsg("ch1", GroupData("g", {"alice", "bob"}, FALSE))), ErrorMsg}

----------------------------------------------------------------------------
(* KWM: connect, reconnect, heartbeat and reply handlers.  The variable kwm
   holds the fields of the KWM object, the sockets it created with the state
   their callbacks captured, the promises connect() returned and the tasks
   queued with setTimeout(0) or waiting for the bootstrap request.  The
   delays of the timers and the latency meter are left out. *)

BootstrapResults == {"ok", "http_error_403", "request_failed"}

\* clearTimeout(this.reconnector)
NoTimer == [armed |-> FALSE, call |-> 0]

\* new KWM(); enabled is KWMInit.options.reconnectEnabled.  destroyed is
\* history, no field of the object: destroy() was called and the
\* application has not called connect() since
KWM(enabled) ==
    [reconnectEnabled |-> enabled, connecting |-> FALSE, connected |-> FALSE,
     reconnecting |-> FALSE, closing |-> FALSE, socket |-> 0, socks |-> EmptyMap,
     destroyed |-> FALSE,
     reconnector |-> NoTimer, heartbeater |-> FALSE, seq |-> 0,
     handlers |-> EmptyMap, calls |-> EmptyMap, tasks |-> {},
     events |-> <<>>, resolved |-> <<>>, routed |-> <<>>]

\* new WebSocket(url) with what createWebSocket's callbacks capture: isTimeout,
\* the connect timer, the reconnector argument, the promise and the connect()
\* call it belongs to; bound is socket.onmessage being set
WebSocket(recon, call) ==
    [ready |-> "connecting", isTimeout |-> FALSE, timer |-> TRUE, recon |-> recon,
     call |-> call, promise |-> "pending", bound |-> FALSE]

Task(k, sock, call) == [k |-> k, sock |-> sock, call |-> call]

FreshCall(k) == CHOOSE c \in 1..(Cardinality(DOMAIN k.calls) + 1) : c \notin DOMAIN k.calls

FreshSock(k) == CHOOSE s \in 1..(Cardinality(DOMAIN k.socks) + 1) : s \notin DOMAIN k.socks

\* dispatchStateChangedEvent, dispatchErrorEvent
Dispatch(k, e) == [k EXCEPT !.events = Append(@, e)]

\* resolve() or reject() of the promise connect() returned for call c
Settle(k, c, outcome) ==
    IF c \in DOMAIN k.calls /\ k.calls[c] = "pending"
    THEN [k EXCEPT !.calls[c] = outcome] ELSE k

\* KWM.closeWebsocket
closeWebsocket(k, s) ==
    [k EXCEPT !.closing = IF s = k.socket THEN TRUE ELSE @,
              !.socks[s].ready = IF @ = "closed" THEN @ ELSE "closing"]

\* the reconnector closure of connect(); chain is the call whose promise
\* follows the retry (.then(resolve).catch(reject)), 0 if nothing follows it
reconnector(k, chain) ==
    IF ~k.reconnecting THEN Settle([k EXCEPT !.reconnector = NoTimer], chain, "resolved")
    ELSE [k EXCEPT !.reconnector = [armed |-> TRUE, call |-> chain]]

\* KWM.destroy: doHangup() of a call for all peers awaits nothing, so its
\* continuation runs before any other event
destroy(k) ==
    LET k1 == [k EXCEPT !.reconnecting = FALSE]
    IN  IF k1.socket # 0 THEN closeWebsocket(k1, k1.socket) ELSE k1

\* KWM.connect up to the await of the bootstrap request; c is the promise
\* it returns
connect(k, c) ==
    Dispatch([k EXCEPT !.reconnector = NoTimer,
                       !.heartbeater = FALSE,
                       !.reconnecting = k.reconnectEnabled,
                       !.connecting = TRUE,
                       !.calls = (c :> "pending") @@ @,
                       !.tasks = @ \cup {Task("bootstrap", 0, c)}],
             "statechanged")

\* KWM.createWebSocket up to the return of the promise
createWebSocket(k, c) ==
    LET k1 == IF k.socket # 0
              THEN closeWebsocket([k EXCEPT !.socket = 0, !.connected = FALSE], k.socket)
              ELSE k
        s  == FreshSock(k1)
    IN  [k1 EXCEPT !.socks = (s :> WebSocket(k1.reconnecting, c)) @@ @,
                   !.closing = FALSE,
                   !.socket = s]

\* the http_error_403 branch of connect
giveUp(k, c) ==
    Dispatch(Dispatch([k EXCEPT !.reconnecting = FALSE], "statechanged"), "error")

\* KWM.connect after the await, with the result of the bootstrap request
bootstrapped(k0, c, result) ==
    IF result # "ok"
    THEN LET k == Dispatch([k0 EXCEPT !.connecting = FALSE], "statechanged")
         IN  IF k.reconnecting
             THEN reconnector(IF result = "http_error_403" THEN giveUp(k, c) ELSE k, c)
             ELSE Settle(k, c, "rejected")
    ELSE createWebSocket(k0, c)

\* socket.onclose
onclose(k0, s) ==
    LET k == [k0 EXCEPT !.socks[s].timer = FALSE]
    IN  IF k.socks[s].isTimeout THEN k
        ELSE IF s # k.socket
        THEN (IF k.socket = 0 /\ ~k.connecting /\ k.socks[s].recon
              THEN reconnector(k, 0) ELSE k)
        ELSE LET k1 == Dispatch([k EXCEPT !.socket = 0, !.closing = FALSE,
                                          !.connected = FALSE, !.connecting = FALSE],
                                "statechanged")
             IN  IF k.socks[s].recon THEN reconnector(k1, 0) ELSE k1

\* the catch of the heartbeat's ping, sock being the socket it was sent on
pingFailed(k, sock) ==
    IF sock # 0 /\ k.socket = sock
    THEN onclose([k EXCEPT !.tasks = @ \cup {Task("close", sock, 0)}], sock)
    ELSE k

\* KWM.sendWebSocketPayload with a reply timeout: registers the reply handler
sendPayload(k, kind) ==
    IF ~k.connected \/ k.socket = 0 \/ k.closing
    THEN (IF kind = "ping" THEN pingFailed(k, k.socket) ELSE k)
    ELSE [k EXCEPT !.seq = @ + 1,
                   !.handlers = ((k.seq + 1) :> [timer |-> TRUE, kind |-> kind,
                                                 sock |-> k.socket, settled |-> FALSE]) @@ @]

\* the heartbeater closure of connect()
heartbeater(k, init) ==
    IF ~k.connected \/ k.closing THEN [k EXCEPT !.heartbeater = FALSE]
    ELSE IF init THEN [k EXCEPT !.heartbeater = TRUE]
    ELSE sendPayload([k EXCEPT !.heartbeater = TRUE], "ping")

\* faulty replyTimeout: the ping's failure is not acted on
replyTimedOut_Ignored(k, id) ==
    [k EXCEPT !.handlers[id].timer = FALSE, !.handlers[id].settled = TRUE]

\* the reply timer of request id fires: reject(new Error('timeout'))
replyTimedOut(k, id) ==
    LET k1 == [k EXCEPT !.handlers[id].timer = FALSE, !.handlers[id].settled = TRUE]
    IN  IF k.handlers[id].kind = "ping" THEN pingFailed(k1, k.handlers[id].sock) ELSE k1

\* the promise of createWebSocket resolves: the first callback of connect's then
socketResolved(k, s) ==
    IF k.socks[s].promise # "pending" THEN k
    ELSE Settle(heartbeater([k EXCEPT !.socks[s].promise = "settled"], TRUE),
                k.socks[s].call, "resolved")

\* the promise of createWebSocket rejects: the second callback of connect's then
socketRejected(k, s) ==
    IF k.socks[s].promise # "pending" THEN k
    ELSE LET k1 == [k EXCEPT !.socks[s].promise = "settled"]
         IN  IF k1.reconnecting THEN reconnector(k1, 0)
             ELSE Settle(k1, k.socks[s].call, "rejected")

\* socket.onopen
onopen(k0, s) ==
    LET k == [k0 EXCEPT !.socks[s].timer = FALSE]
    IN  IF k.socks[s].isTimeout THEN k
        ELSE LET k1 == [k EXCEPT !.tasks = @ \cup {Task("opened", s, 0)}]
             IN  IF s # k.socket THEN k1
                 ELSE [k1 EXCEPT !.connected = TRUE, !.connecting = FALSE,
                                 !.socks[s].bound = TRUE]

\* socket.onerror
onerror(k0, s) ==
    LET k == [k0 EXCEPT !.socks[s].timer = FALSE]
    IN  IF k.socks[s].isTimeout THEN k
        ELSE LET k1 == [k EXCEPT !.tasks = @ \cup {Task("errored", s, 0)}]
             IN  IF s # k.socket THEN k1
                 ELSE Dispatch(Dispatch([k1 EXCEPT !.socket = 0, !.connected = FALSE,
                                                   !.connecting = FALSE],
                                        "error"), "statechanged")

\* the connect timer of createWebSocket
connectTimeout(k0, s) ==
    LET k  == [k0 EXCEPT !.socks[s].timer = FALSE, !.socks[s].isTimeout = TRUE]
        k1 == IF s = k.socket
              THEN Dispatch([k EXCEPT !.socket = 0, !.connected = FALSE,
                                      !.connecting = FALSE], "statechanged")
              ELSE k
    IN  socketRejected([k1 EXCEPT !.tasks = @ \cup {Task("close", s, 0)}], s)

\* an inbound envelope: reply_to = 0 is an envelope without reply_to
Envelope(type, id, replyTo) == [type |-> type, id |-> id, reply_to |-> replyTo]

\* faulty replyId: a pong is not taken as the reply to its id
replyId_PongUnmatched(m) == m.reply_to

\* the request an envelope answers: a pong answers its own id
replyId(m) == IF m.type = "pong" THEN m.id ELSE m.reply_to

\* the switch of handleWebSocketMessage: routed lists the cases that ran, the
\* default case runs no handler
route(k0, m) ==
    LET k == IF m.type \in {"hello", "goodbye", "webrtc", "error"}
             THEN [k0 EXCEPT !.routed = Append(@, m.type)]
             ELSE k0
    IN  CASE m.type = "hello" -> Dispatch(k, "statechanged")
          [] m.type = "goodbye" -> [closeWebsocket(k, k.socket) EXCEPT !.connected = FALSE]
          [] m.type = "error" -> Dispatch(k, "error")
          [] OTHER -> k

\* KWM.handleWebSocketMessage for an envelope that arrives on socket s
handleWebSocketMessage(k, s, m) ==
    IF s # k.socket THEN [k EXCEPT !.socks[s].ready = "closing"]
    ELSE IF replyId(m) # 0
    THEN (IF replyId(m) \in DOMAIN k.handlers
          THEN [k EXCEPT !.handlers = Remove(@, replyId(m)),
                         !.resolved = Append(@, [id |-> replyId(m), with |-> m.type])]
          ELSE k)
    ELSE route(k, m)

\* what the server can send on a socket
KwmMsgs ==
    {Envelope(type, i, j) : type \in {"pong", "webrtc", "error"},
                            i \in 0..MaxSeq, j \in 0..MaxSeq}
    \cup {Envelope("hello", 0, 0), Envelope("goodbye", 0, 0)}

\* the value of steps in runs of any length
Unbounded == 0 - 1

\* the sockets and promises something can still act on
KCollect(k) ==
    LET live  == {s \in DOMAIN k.socks :
                     \/ s = k.socket
                     \/ k.socks[s].ready # "closed"
                     \/ \E t \in k.tasks : t.sock = s
                     \/ \E i \in DOMAIN k.handlers :
                           k.handlers[i].timer /\ k.handlers[i].sock = s}
        calls == {c \in DOMAIN k.calls :
                     /\ k.calls[c] = "pending"
                     /\ \/ \E t \in k.tasks : t.call = c
                        \/ \E s \in live : k.socks[s].promise = "pending" /\ k.socks[s].call = c
                        \/ k.reconnector.call = c}
    IN  [k EXCEPT !.socks = [s \in live |-> IF k.socks[s].promise = "pending" THEN k.socks[s]
                                           ELSE [k.socks[s] EXCEPT !.call = 0]],
                  !.handlers = [i \in DOMAIN k.handlers |->
                                   IF k.handlers[i].timer THEN k.handlers[i]
                                   ELSE [k.handlers[i] EXCEPT !.sock = 0]],
                  !.calls = [c \in calls |-> k.calls[c]],
                  !.events = <<>>, !.resolved = <<>>, !.routed = <<>>]

\* the fields of the KWM object after a handler has run
KCommit(k) ==
    /\ steps < MaxKwmSteps
    /\ steps' = IF steps = Unbounded THEN steps ELSE steps + 1
    /\ kwm' = KCollect(k)
    /\ UNCHANGED <<user, channel, opts, group, peers, heap, pcs, localStream, pend, backoff, p2p, turn, connected, link>>

\* the KWM object once task t has left the queue to run
KWithout(t) == [kwm EXCEPT !.tasks = @ \ {t}]

KInit ==
    /\ user = ""
    /\ channel = ""
    /\ opts = 0
    /\ group = 0
    /\ peers = EmptyMap
    /\ heap = EmptyMap
    /\ pcs = EmptyMap
    /\ localStream = Undef
    /\ pend = {}
    /\ connected = FALSE
    /\ steps = 0
    /\ kwm \in {KWM(enabled) : enabled \in BOOLEAN}
    /\ backoff = Backoff(0)
    /\ p2p = P2P
    /\ turn = Turn
    /\ link = Link

\* the application calls connect()
KConnect ==
    /\ Cardinality(DOMAIN kwm.calls) < MaxCalls
    /\ KCommit([connect(kwm, FreshCall(kwm)) EXCEPT !.destroyed = FALSE])

\* the bootstrap request of a connect() call returns
Bootstrap == \E t \in kwm.tasks, result \in BootstrapResults :
    /\ t.k = "bootstrap"
    /\ result = "ok" => Cardinality(DOMAIN kwm.socks) < MaxSockets
    /\ KCommit(bootstrapped(KWithout(t), t.call, result))

SocketOpens == \E s \in DOMAIN kwm.socks :
    /\ kwm.socks[s].ready = "connecting"
    /\ KCommit(onopen([kwm EXCEPT !.socks[s].ready = "open"], s))

SocketErrors == \E s \in DOMAIN kwm.socks :
    /\ kwm.socks[s].ready \in {"connecting", "open"}
    /\ KCommit(onerror([kwm EXCEPT !.socks[s].ready = "closing"], s))

SocketCloses == \E s \in DOMAIN kwm.socks :
    /\ kwm.socks[s].ready # "closed"
    /\ KCommit(onclose([kwm EXCEPT !.socks[s].ready = "closed"], s))

ConnectTimeout == \E s \in DOMAIN kwm.socks :
    /\ kwm.socks[s].timer
    /\ KCommit(connectTimeout(kwm, s))

OpenResolved == \E t \in kwm.tasks :
    /\ t.k = "opened"
    /\ KCommit(socketResolved(KWithout(t), t.sock))

ErrorRejected == \E t \in kwm.tasks :
    /\ t.k = "errored"
    /\ KCommit(socketRejected(KWithout(t), t.sock))

CloseLater == \E t \in kwm.tasks :
    /\ t.k = "close"
    /\ KCommit(closeWebsocket(KWithout(t), t.sock))

\* connect() can run for the armed timer: its promise is the one that follows
\* the retry, or there is room for another one
CanRetry ==
    kwm.reconnector.call # 0 \/ Cardinality(DOMAIN kwm.calls) <= MaxCalls

\* the reconnector timer fires: this.connect(auth, authMode).then(resolve).catch(reject);
\* the promise that follows the retry and the retry's own settle together
ReconnectTimer ==
    /\ kwm.reconnector.armed
    /\ CanRetry
    /\ KCommit(connect(kwm, IF kwm.reconnector.call # 0 THEN kwm.reconnector.call
                             ELSE FreshCall(kwm)))

HeartbeatTimer ==
    /\ kwm.heartbeater
    /\ kwm.seq < MaxSeq
    /\ KCommit(heartbeater(kwm, FALSE))

\* the engine sends a request with a reply timeout (sendWebrtc)
Request ==
    /\ kwm.seq < MaxSeq
    /\ KCommit(sendPayload(kwm, "webrtc"))

ReplyTimeout == \E id \in DOMAIN kwm.handlers :
    /\ kwm.handlers[id].timer
    /\ KCommit(replyTimedOut(kwm, id))

Deliver == \E s \in DOMAIN kwm.socks, m \in KwmMsgs :
    /\ kwm.socks[s].bound
    /\ kwm.socks[s].ready \in {"open", "closing"}
    /\ KCommit(handleWebSocketMessage(kwm, s, m))

KNext ==
    \/ KConnect
    \/ Bootstrap
    \/ SocketOpens
    \/ SocketErrors
    \/ SocketCloses
    \/ ConnectTimeout
    \/ OpenResolved
    \/ ErrorRejected
    \/ CloseLater
    \/ ReconnectTimer
    \/ HeartbeatTimer
    \/ Request
    \/ ReplyTimeout
    \/ Deliver

SpecKWM == KInit /\ [][KNext]_vars

\* the application calls destroy()
KDestroy ==
    /\ ~kwm.destroyed
    /\ KCommit([destroy(kwm) EXCEPT !.destroyed = TRUE])

\* the KWM object of an application that also calls destroy()
KNextDestroy ==
    \/ KNext
    \/ KDestroy

SpecDestroy == KInit /\ [][KNextDestroy]_vars

\* the KWM object once connect() has resolved: the socket is open and the
\* heartbeat is armed
Connected(enabled) ==
    [KWM(enabled) EXCEPT
        !.connected = TRUE, !.reconnecting = enabled, !.socket = 1, !.heartbeater = TRUE,
        !.socks = 1 :> [WebSocket(enabled, 0) EXCEPT !.ready = "open", !.timer = FALSE,
                                                    !.promise = "settled", !.bound = TRUE]]

\* a connected KWM object, for runs of any length
KInitFair ==
    /\ user = ""
    /\ channel = ""
    /\ opts = 0
    /\ group = 0
    /\ peers = EmptyMap
    /\ heap = EmptyMap
    /\ pcs = EmptyMap
    /\ localStream = Undef
    /\ pend = {}
    /\ connected = FALSE
    /\ steps = Unbounded
    /\ kwm \in {Connected(enabled) : enabled \in BOOLEAN}
    /\ backoff = Backoff(0)
    /\ p2p = P2P
    /\ turn = Turn
    /\ link = Link

\* heartbeat and reconnect without the application
KNextFair ==
    \/ Bootstrap
    \/ SocketOpens
    \/ SocketCloses
    \/ OpenResolved
    \/ CloseLater
    \/ ReconnectTimer
    \/ HeartbeatTimer
    \/ ReplyTimeout
    \/ Deliver

\* a reconnector timer that stays armed fires
SpecKWMFair == KInitFair /\ [][KNextFair]_vars /\ WF_vars(ReconnectTimer)

----------------------------------------------------------------------------
(* Steps *)

\* the records something still refers to
Refs(s) == (Range(s.peers) \cup {s.group, s.opts} \cup {c.rid : c \in s.pend}) \ {0}

\* drop the cells nothing refers to and the destroyed pcs nothing refers to
Collect(s) ==
    LET refs == Refs(s)
        h    == [r \in refs |-> s.heap[r]]
        keep == {p \in DOMAIN s.pcs : \/ ~s.pcs[p].destroyed
                                      \/ \E r \in refs : h[r].pc = p
                                      \/ \E c \in s.pend : c.pc = p}
    IN  [s EXCEPT !.heap = h, !.pcs = [p \in keep |-> s.pcs[p]]]

Fits(s) == Cardinality(s.pend) <= MaxPending /\ Cardinality(DOMAIN s.pcs) <= MaxPcs

\* the engine fields after a handler has run
Commit(s0) ==
    LET s == Collect(s0)
    IN  /\ Fits(s)
        /\ steps < MaxSteps
        /\ steps' = steps + 1
        /\ user' = s.user
        /\ channel' = s.channel
        /\ opts' = s.opts
        /\ group' = s.group
        /\ peers' = s.peers
        /\ heap' = s.heap
        /\ pcs' = s.pcs
        /\ localStream' = s.localStream
        /\ pend' = s.pend
        /\ UNCHANGED <<connected, kwm, backoff, p2p, turn, link>>

\* the engine state once closure c has left the pending set to run
Without(c) == [St EXCEPT !.pend = @ \ {c}]

Init ==
    /\ user = ""
    /\ channel = ""
    /\ opts = 0
    /\ group = 0
    /\ peers = EmptyMap
    /\ heap = EmptyMap
    /\ pcs = EmptyMap
    /\ localStream = Undef
    /\ pend = {}
    /\ kwm = KWM(TRUE)
    /\ backoff = Backoff(0)
    /\ p2p = P2P
    /\ turn = Turn
    /\ link = Link
    /\ connected = FALSE
    /\ steps = 0

\* the socket opens or closes
Connect ==
    /\ steps < MaxSteps
    /\ steps' = steps + 1
    /\ connected' = ~connected
    /\ UNCHANGED <<user, channel, opts, group, peers, heap, pcs, localStream, pend, kwm, backoff, p2p, turn, link>>

Hello(ids) == \E id \in ids, n \in Nonces :
    /\ connected
    /\ Commit(handleHello(St, id, n))

DoCall == \E u \in RemoteIds, n \in Nonces : Commit(doCall(St, u, n))

DoAnswer == \E u \in RemoteIds : Commit(doAnswer(St, u))

DoReject == \E u \in RemoteIds : Commit(doReject(St, u, "reject"))

DoGroup == \E g \in GroupIds, n \in Nonces : Commit(doGroup(St, g, n))

DoHangup == \E u \in RemoteIds \cup {""}, reason \in Reasons : Commit(doHangup(St, u, reason))

Receive(msgs) == \E m \in msgs, n1, n2 \in Nonces :
    /\ connected
    /\ Commit(handleWebRTCMessage(St, m, n1, n2))

\* the replies the server can give to the request of closure c
RepliesTo(c) == {m \in CallReplyMsgs : m.source \in {"", c.user}}

CallReplied == \E c \in pend : \E m \in RepliesTo(c), n1, n2 \in Nonces :
    /\ connected
    /\ c.k = "doCall"
    /\ Commit(doCallResume(Without(c), c, m, n1, n2))

GroupReplied == \E c \in pend, m \in GroupReplyMsgs, n1, n2 \in Nonces :
    /\ connected
    /\ c.k = "doGroup"
    /\ Commit(doGroupResume(Without(c), c, m, n1, n2))

GroupRefreshed == \E c \in pend, m \in GroupReplyMsgs, n1, n2 \in Nonces :
    /\ connected
    /\ c.k = "refreshGroup"
    /\ Commit(refreshGroupResume(Without(c), c, m, n1, n2))

Timeout == \E c \in pend :
    /\ c.k \in {"doCall", "doGroup", "refreshGroup"}
    /\ Commit(replyTimeout(Without(c), c))

AnswerSent == \E c \in pend :
    /\ c.k = "doAnswer"
    /\ Commit(doAnswerResume(Without(c), c))

SilentHangupTimer == \E c \in pend :
    /\ c.k = "silentHangup"
    /\ Commit(silentHangup(Without(c), c))

ReplacedTimer == \E c \in pend :
    /\ c.k = "replaced"
    /\ Commit(replacedHangup(Without(c)))

RecoverTimer == \E c \in pend :
    /\ c.k = "recover"
    /\ Commit(recoverTimer(Without(c), c))

\* a SimplePeer emits error only while it destroys itself
PcError == \E k \in DOMAIN peers :
    /\ heap[peers[k]].pc # 0
    /\ ~pcs[heap[peers[k]].pc].destroyed
    /\ Commit(onError(Destroy(St, heap[peers[k]].pc), peers[k], heap[peers[k]].pc))

PcClose == \E k \in DOMAIN peers :
    /\ heap[peers[k]].pc # 0
    /\ pcs[heap[peers[k]].pc].destroyed
    /\ Commit(onClose(St, peers[k], heap[peers[k]].pc))

\* one-to-one calls
Next ==
    \/ Connect
    \/ Hello({KwmUser})
    \/ DoCall
    \/ DoAnswer
    \/ DoReject
    \/ DoHangup
    \/ Receive(CallMsgs)
    \/ CallReplied
    \/ Timeout
    \/ AnswerSent
    \/ SilentHangupTimer
    \/ ReplacedTimer
    \/ RecoverTimer
    \/ PcError
    \/ PcClose

Spec == Init /\ [][Next]_vars

\* group calls
NextMesh ==
    \/ Connect
    \/ Hello(SelfIds)
    \/ DoGroup
    \/ DoHangup
    \/ Receive(MeshMsgs)
    \/ GroupReplied
    \/ GroupRefreshed
    \/ Timeout
    \/ AnswerSent
    \/ ReplacedTimer
    \/ RecoverTimer
    \/ PcError
    \/ PcClose

\* the engine connected and greeted as KwmUser: Init after Connect and Hello
InitMesh ==
    /\ user = KwmUser
    /\ channel = ""
    /\ opts = 0
    /\ group = 0
    /\ peers = EmptyMap
    /\ heap = EmptyMap
    /\ pcs = EmptyMap
    /\ localStream = Undef
    /\ pend = {}
    /\ kwm = KWM(TRUE)
    /\ backoff = Backoff(0)
    /\ p2p = P2P
    /\ turn = Turn
    /\ link = Link
    /\ connected = TRUE
    /\ steps = 0

SpecMesh == InitMesh /\ [][NextMesh]_vars

\* the envelopes of a group call with a pipeline
StreamMsgs ==
    {ChannelMsg("ch1", PipelineData("mcu-forward"))}
    \cup {CallReply(src, "H1", "g", TRUE, "g") : src \in RemoteIds}
    \cup {SignalMsg(p, "ch1", p, "q1") : p \in PipelineIds}

SetLocalStream == \E stream \in Streams \cup {Undef} :
    /\ stream # localStream
    /\ Commit(setLocalStream(St, stream))

AddLocalStreamTrack == \E track \in Tracks, stream \in Streams :
    Commit(addLocalStreamTrack(St, track, stream))

RemoveLocalStreamTrack == \E track \in Tracks, stream \in Streams :
    Commit(removeLocalStreamTrack(St, track, stream))

\* group calls with local media
NextStream ==
    \/ DoGroup
    \/ GroupReplied
    \/ Receive(StreamMsgs)
    \/ AnswerSent
    \/ DoHangup
    \/ SetLocalStream
    \/ AddLocalStreamTrack
    \/ RemoveLocalStreamTrack

SpecStream == InitMesh /\ [][NextStream]_vars

----------------------------------------------------------------------------
(* Reconnect backoff of KWM.connect: the delay of the reconnect timer.  A  *)
(* factor is a fraction <<numerator, denominator>>, so that powers of 1.5  *)
(* are exact, as they are in a double while 3^n stays below 2^53.          *)

RECURSIVE IntPow(_, _)
IntPow(b, n) == IF n = 0 THEN 1 ELSE b * IntPow(b, n - 1)

\* Math.trunc(Math.pow(factor, n)) for a positive factor
truncPow(factor, n) == IntPow(factor[1], n) \div IntPow(factor[2], n)

\* Math.floor(Math.random() * reconnectSpreader)
Spreads == 0 .. (reconnectSpreader - 1)

\* the delay the reconnector arms its timer with; rnd is the random part
reconnectTimeout(attempts, fast, rnd) ==
    IF fast THEN reconnectInterval
    ELSE LET t == reconnectInterval * truncPow(reconnectFactor, attempts)
             capped == IF t > maxReconnectInterval THEN maxReconnectInterval ELSE t
         IN  capped + rnd

\* the fields every specification of the KWM object leaves alone
EngineIdle ==
    /\ user = ""
    /\ channel = ""
    /\ opts = 0
    /\ group = 0
    /\ peers = EmptyMap
    /\ heap = EmptyMap
    /\ pcs = EmptyMap
    /\ localStream = Undef
    /\ pend = {}
    /\ connected = FALSE
    /\ steps = 0

InitBackoff ==
    /\ EngineIdle
    /\ kwm = KWM(TRUE)
    /\ backoff = Backoff(0)
    /\ p2p = P2P
    /\ turn = Turn
    /\ link = Link

\* reconnector(fast) arms the timer and counts the attempt
Reconnector == \E fast \in BOOLEAN, rnd \in Spreads :
    /\ backoff.reconnectAttempts < MaxAttempts
    /\ backoff' = [reconnectAttempts |-> backoff.reconnectAttempts + 1,
                   reconnectTimeout |-> reconnectTimeout(backoff.reconnectAttempts, fast, rnd)]
    /\ UNCHANGED <<user, channel, opts, group, peers, heap, pcs, localStream, pend, kwm, turn,
                   p2p, connected, steps, link>>

\* the socket opened: connection established
Established ==
    /\ backoff' = [backoff EXCEPT !.reconnectAttempts = 0]
    /\ UNCHANGED <<user, channel, opts, group, peers, heap, pcs, localStream, pend, kwm, turn,
                   p2p, connected, steps, link>>

\* the server said goodbye
Goodbye ==
    /\ backoff' = [backoff EXCEPT !.reconnectAttempts = 1]
    /\ UNCHANGED <<user, channel, opts, group, peers, heap, pcs, localStream, pend, kwm, turn,
                   p2p, connected, steps, link>>

NextBackoff == Reconnector \/ Established \/ Goodbye

SpecBackoff == InitBackoff /\ [][NextBackoff]_vars

----------------------------------------------------------------------------
(* TURN refresh of KWM.connect *)

\* no turn member in a response
NoTurn == [uris |-> FALSE, ttl |-> 0]

\* the turn member of a response: whether it has uris, and its ttl in seconds
TurnConfigs == {[uris |-> u, ttl |-> t] : u \in BOOLEAN, t \in {0, 100, 3600}}

\* what the await of rtmTURN yields: the fetch throws (network failure), the
\* endpoint answers with a status that is not 2xx ({ok: false, error}), or it
\* answers with a body that has a turn member or none
TurnResults ==
    {[kind |-> "throw", turn |-> NoTurn], [kind |-> "http_error", turn |-> NoTurn],
     [kind |-> "ok", turn |-> NoTurn]}
    \cup {[kind |-> "ok", turn |-> c] : c \in TurnConfigs}

\* the turnRefresher closure of connect: arms the timer unless closing
turnRefresher(t, ttl) ==
    IF t.closing THEN [t EXCEPT !.turnRefresher = 0]
    ELSE [t EXCEPT !.turnRefresher = ttl]

\* KWM.handleTURNConfig with the refresher; prevented is the application
\* calling preventDefault on the event
handleTURNConfig(t, c, prevented) ==
    IF c # NoTurn /\ c.uris
    THEN LET t1 == IF prevented THEN t ELSE [t EXCEPT !.turnServer = TRUE]
         IN  IF c.ttl # 0 THEN turnRefresher(t1, (c.ttl * 90) \div 100) ELSE t1
    ELSE t

\* the timer of the refresher fires
turnTimer(t0) ==
    LET t == [t0 EXCEPT !.turnRefresher = 0]
    IN  IF ~t.connected \/ t.closing THEN t
        ELSE [t EXCEPT !.fetches = @ + 1]

\* the await of rtmTURN returns or throws
turnFetched(t0, result, prevented) ==
    LET t == [t0 EXCEPT !.fetches = @ - 1]
    IN  IF result.kind = "throw" THEN turnRefresher(t, 5)
        ELSE IF result.turn # NoTurn THEN handleTURNConfig(t, result.turn, prevented)
        ELSE t

TurnCommit(t) ==
    /\ turn' = t
    /\ UNCHANGED <<user, channel, opts, group, peers, heap, pcs, localStream, pend, kwm,
                   backoff, p2p, connected, steps, link>>

InitTurn ==
    /\ EngineIdle
    /\ kwm = KWM(TRUE)
    /\ backoff = Backoff(0)
    /\ p2p = P2P
    /\ turn = Turn
    /\ link = Link

\* connect(): clears the refresher's timer and awaits rtmConnect
TurnConnect ==
    /\ ~turn.connecting
    /\ TurnCommit([turn EXCEPT !.turnRefresher = 0, !.connecting = TRUE])

\* rtmConnect answered with a url: the turn member is handled, the socket created
TurnBootstrap == \E c \in TurnConfigs \cup {NoTurn}, prevented \in BOOLEAN :
    /\ turn.connecting
    /\ TurnCommit([handleTURNConfig(turn, c, prevented) EXCEPT
                      !.connecting = FALSE, !.closing = FALSE, !.socket = "opening"])

\* socket.onopen
TurnSocketOpens ==
    /\ turn.socket = "opening"
    /\ TurnCommit([turn EXCEPT !.socket = "open", !.connected = TRUE])

\* closeWebsocket(this.socket)
TurnCloseWebsocket ==
    /\ turn.socket # "none"
    /\ ~turn.closing
    /\ TurnCommit([turn EXCEPT !.closing = TRUE])

\* socket.onclose
TurnSocketCloses ==
    /\ turn.socket # "none"
    /\ TurnCommit([turn EXCEPT !.socket = "none", !.connected = FALSE, !.closing = FALSE])

TurnTimer ==
    /\ turn.turnRefresher # 0
    /\ turn.fetches < MaxFetches
    /\ TurnCommit(turnTimer(turn))

TurnFetched == \E result \in TurnResults, prevented \in BOOLEAN :
    /\ turn.fetches > 0
    /\ TurnCommit(turnFetched(turn, result, prevented))

NextTurn ==
    \/ TurnConnect
    \/ TurnBootstrap
    \/ TurnSocketOpens
    \/ TurnCloseWebsocket
    \/ TurnSocketCloses
    \/ TurnTimer
    \/ TurnFetched

SpecTurn == InitTurn /\ [][NextTurn]_vars /\ WF_vars(TurnTimer) /\ WF_vars(TurnFetched)

----------------------------------------------------------------------------
(* P2P Controller (src/src/p2p.ts).  A connection is named by the id of    *)
(* its pc; stream records, PCRecords and sub-connections are heap cells    *)
(* (p.srs, p.binders, p.spcs), so that a callback can outlive the table    *)
(* entry of its stream record and a recovery timer the table entry of its  *)
(* PCRecord.  The cell of a sub-connection holds what the closures of its  *)
(* getPeerConnection call captured.  p.pend is the queue of the recovery   *)
(* timers, which all have the same delay.  0 stands for undefined (no pc,  *)
(* no rpcid, no pcid).                                                     *)

StreamIds   == {"s1", "s2"}    \* ids of the streams a peer announces
LocalStreamIds == {"s1"}       \* ids of the local screen share streams
Kinds       == {"screenshare", "video", ""}
Tokens      == {"t1", "t2"}     \* tokens a peer announces
LocalTokens == {"l1", "l2"}     \* getRandomString(16) of local stream records
Stamps      == {0, 1, 2}        \* ts of a message; 0 is the ts of a new record
Now         == 1                \* Date.now() of this side
PeerNow     == 2                \* Date.now() of the peer

NoHandshake == [set |-> FALSE, ts |-> 0, v |-> 0]

Handshake(ts, v) == [set |-> TRUE, ts |-> ts, v |-> v]

\* new P2PRecord(id, pc, user, config, initiator); destroyed is pc.destroyed
P2PRecord(initiator) ==
    [initiator |-> initiator, destroyed |-> FALSE, connected |-> FALSE, ready |-> FALSE,
     ts |-> 0, handshake |-> NoHandshake, streams |-> EmptyMap]

\* new PCRecord()
PCRecord == [pc |-> 0, rpcid |-> 0]

\* new StreamRecord(controller, id, kind, stream): a kind that is not
\* supported leaves kind, options and stream unset
StreamRecord(id, kind, stream) ==
    IF kind = "screenshare"
    THEN [id |-> id, kind |-> kind, stream |-> stream, options |-> TRUE, token |-> "",
          connections |-> EmptyMap]
    ELSE [id |-> id, kind |-> "", stream |-> FALSE, options |-> FALSE, token |-> "",
          connections |-> EmptyMap]

\* a message on a data channel
DcMsg == [type |-> "p2p", subtype |-> "", v |-> 0, ts |-> 0, reply |-> NoHandshake,
          streams |-> <<>>, source |-> "", pcid |-> 0, data |-> "none"]

FreshSr(p) == CHOOSE i \in 1..(Cardinality(DOMAIN p.srs) + 1) : i \notin DOMAIN p.srs

FreshSpc(p) == CHOOSE i \in 1..(Cardinality(DOMAIN p.spcs) + 1) : i \notin DOMAIN p.spcs

FreshBid(p) ==
    CHOOSE i \in 1..(Cardinality(DOMAIN p.binders) + 1) : i \notin DOMAIN p.binders

\* the connection ids bound in some stream record
BoundIds(p) == UNION {DOMAIN p.srs[i].connections : i \in DOMAIN p.srs}

\* pc._id of a new pc: an id nothing refers to
FreshConn(p) ==
    LET used == DOMAIN p.connections \cup BoundIds(p)
                \cup {p.spcs[x].rec : x \in DOMAIN p.spcs}
    IN  CHOOSE i \in 1..(Cardinality(used) + 1) : i \notin used

P2PEmit(p, name, id) == [p EXCEPT !.events = Append(@, [event |-> name, id |-> id])]

P2PThrow(p, e) == [p EXCEPT !.err = e]

\* P2PController.sendDatachannelPayload: pc.send(payload)
sendDatachannelPayload(p, payload, pc) ==
    [p EXCEPT !.sent = Append(@, [pc |-> pc, payload |-> payload])]

\* getPeerConnection, the switch on opts.kind: what the new pc is given to
\* send or receive; given is whether opts has streams, stream whether a
\* stream is among them, supported is 'addTransceiver' in pc
kindSwitch(kind, given, stream, initiator, supported) ==
    IF kind = "screenshare"
    THEN (IF ~given
          THEN (IF initiator /\ supported THEN "transceiver" ELSE "none")
          ELSE IF stream THEN "tracks" ELSE "none")
    ELSE IF given /\ stream THEN "stream" ELSE "none"

\* what a getPeerConnection call for record rec, PCRecord bid and stream
\* record srid captures: handleWebRTC passes streams and its callback sets
\* rpcid to the pcid of its message, handleAnnounceStreams passes no streams
SpcCell(p, rec, bid, srid, given, pcid) ==
    LET sr   == p.srs[srid]
        kind == IF sr.options THEN sr.kind ELSE ""
    IN  [destroyed |-> FALSE, rec |-> rec, bid |-> bid, srid |-> srid,
         initiator |-> p.connections[rec].initiator, source |-> sr.token,
         given |-> given, stream |-> given /\ sr.stream, kind |-> kind, pcid |-> pcid,
         media |-> kindSwitch(kind, given, given /\ sr.stream,
                              p.connections[rec].initiator, TRUE)]

\* P2PController.getPeerConnection with the captures of cell: the new pc
\* becomes binder.pc and the callback of the caller stores the binder
NewSpc(p, cell) ==
    [p EXCEPT !.spcs = @ @@ (FreshSpc(p) :> [cell EXCEPT !.destroyed = FALSE]),
              !.binders[cell.bid] =
                  [pc |-> FreshSpc(p), rpcid |-> IF cell.given THEN cell.pcid ELSE @.rpcid],
              !.srs[cell.srid].connections = (cell.rec :> cell.bid) @@ @]

\* recover(record, pc) of getPeerConnection: setTimeout of 500 ms
subRecover(p, spc) == [p EXCEPT !.pend = Append(@, spc)]

\* record.pc.destroyed of the record a sub-connection was created for: a
\* record that left the table was removed on the close event of its pc
ParentDestroyed(p, spc) ==
    \/ p.spcs[spc].rec \notin DOMAIN p.connections
    \/ p.connections[p.spcs[spc].rec].destroyed

\* the signal handler of sub-connection spc; a failed send arms the recovery
subSignal(p, spc, data) ==
    IF p.binders[p.spcs[spc].bid].pc # spc THEN p
    ELSE IF ParentDestroyed(p, spc) THEN subRecover(p, spc)
    ELSE sendDatachannelPayload(p,
             [DcMsg EXCEPT !.type = "webrtc", !.subtype = "webrtc_signal", !.v = Version,
                           !.source = p.spcs[spc].source, !.pcid = spc, !.data = data],
             p.spcs[spc].rec)

\* the error handler of sub-connection spc; record.reconnect is never set
\* to false
subError(p, spc) ==
    IF p.binders[p.spcs[spc].bid].pc # spc THEN p
    ELSE subRecover(P2PEmit(p, "pc.error", spc), spc)

\* the timer of the oldest subRecover() call
subRecoverTimer(p) ==
    LET spc  == Head(p.pend)
        cell == p.spcs[spc]
        p0   == [p EXCEPT !.pend = Tail(@)]
        p1   == NewSpc([p0 EXCEPT !.spcs[spc].destroyed = TRUE], cell)
        p2   == [p1 EXCEPT !.binders[cell.bid].rpcid = 0]
    IN  IF p.binders[cell.bid].pc # 0 /\ p.binders[cell.bid].pc # spc THEN p0
        ELSE IF cell.initiator THEN p2
        ELSE subSignal(p2, FreshSpc(p0), "noop")

\* StreamRecord.destroy
streamDestroy(p, srid) ==
    LET sr   == p.srs[srid]
        bids == Range(sr.connections)
        dead == {p.binders[b].pc : b \in bids} \ {0}
    IN  [p EXCEPT !.spcs = [x \in DOMAIN @ |->
                               IF x \in dead THEN [@[x] EXCEPT !.destroyed = TRUE] ELSE @[x]],
                  !.binders = [b \in DOMAIN @ |->
                                  IF b \in bids THEN [@[b] EXCEPT !.pc = 0] ELSE @[b]],
                  !.srs[srid].connections = EmptyMap,
                  !.srs[srid].stream = FALSE]

RECURSIVE destroyAll(_, _)
destroyAll(p, srids) ==
    IF srids = {} THEN p
    ELSE LET i == CHOOSE x \in srids : TRUE
         IN  destroyAll(streamDestroy(p, i), srids \ {i})

\* faulty handleWebRTC: a noop signal is fed to the sub-connection
streamHandleWebRTC_NoopFed(p, srid, rec, m) ==
    IF m.subtype # "webrtc_signal" \/ m.data = "none" THEN p
    ELSE LET sr    == p.srs[srid]
             has   == rec \in DOMAIN sr.connections
             bid   == IF has THEN sr.connections[rec] ELSE FreshBid(p)
             p0    == IF has THEN p ELSE [p EXCEPT !.binders = @ @@ (bid :> PCRecord)]
             b0    == p0.binders[bid]
             bind  == m.pcid # b0.rpcid /\ b0.rpcid = 0 /\ b0.pc # 0 /\ m.pcid # 0
             kill  == m.pcid # b0.rpcid /\ b0.rpcid # 0 /\ b0.pc # 0
             fresh == b0.pc = 0 \/ kill
             p1    == IF kill THEN [p0 EXCEPT !.spcs[b0.pc].destroyed = TRUE,
                                              !.binders[bid].pc = 0]
                      ELSE IF bind THEN [p0 EXCEPT !.binders[bid].rpcid = m.pcid]
                      ELSE p0
             p3    == IF fresh THEN NewSpc(p1, SpcCell(p1, rec, bid, srid, TRUE, m.pcid))
                      ELSE p1
             b2    == p3.binders[bid]
         IN  IF fresh /\ p.connections[rec].initiator /\ m.data \in {"renegotiate", "noop"}
             THEN p3
             ELSE P2PEmit(p3, "pc.signal()", b2.pc)

\* StreamRecord.handleWebRTC: the routing callback of stream record srid for
\* a message that arrived on connection rec
streamHandleWebRTC(p, srid, rec, m) ==
    IF m.subtype # "webrtc_signal" \/ m.data = "none" THEN p
    ELSE LET sr    == p.srs[srid]
             has   == rec \in DOMAIN sr.connections
             bid   == IF has THEN sr.connections[rec] ELSE FreshBid(p)
             p0    == IF has THEN p ELSE [p EXCEPT !.binders = @ @@ (bid :> PCRecord)]
             b0    == p0.binders[bid]
             bind  == m.pcid # b0.rpcid /\ b0.rpcid = 0 /\ b0.pc # 0 /\ m.pcid # 0
             kill  == m.pcid # b0.rpcid /\ b0.rpcid # 0 /\ b0.pc # 0
             fresh == b0.pc = 0 \/ kill
             p1    == IF kill THEN [p0 EXCEPT !.spcs[b0.pc].destroyed = TRUE,
                                              !.binders[bid].pc = 0]
                      ELSE IF bind THEN [p0 EXCEPT !.binders[bid].rpcid = m.pcid]
                      ELSE p0
             p3    == IF fresh THEN NewSpc(p1, SpcCell(p1, rec, bid, srid, TRUE, m.pcid))
                      ELSE p1
             b2    == p3.binders[bid]
         IN  IF fresh /\ p.connections[rec].initiator /\ m.data \in {"renegotiate", "noop"}
             THEN p3
             ELSE IF m.data = "noop" THEN p3
             ELSE P2PEmit(p3, "pc.signal()", b2.pc)

\* faulty handleWebRTCMessage without the version check
p2pHandleWebRTCMessage_AnyVersion(p, rec, m) ==
    IF m.source \notin DOMAIN p.callbacks THEN p
    ELSE streamHandleWebRTC(p, p.callbacks[m.source], rec, m)

\* P2PController.handleWebRTCMessage
p2pHandleWebRTCMessage(p, rec, m) ==
    IF m.v < Version THEN p
    ELSE IF m.source \notin DOMAIN p.callbacks THEN p
    ELSE streamHandleWebRTC(p, p.callbacks[m.source], rec, m)

RECURSIVE sendEach(_, _, _)
sendEach(p, payload, pcs0) ==
    IF pcs0 = {} THEN p
    ELSE LET i == CHOOSE x \in pcs0 : \A y \in pcs0 : x <= y
         IN  sendEach(sendDatachannelPayload(p, payload, i), payload, pcs0 \ {i})

\* P2PController.announceStreams; target 0 is no record given
announceStreams(p, target, force) ==
    LET streams == {[id |-> p.srs[i].id, kind |-> p.srs[i].kind, token |-> p.srs[i].token] :
                       i \in Range(p.localStreams)}
        payload == [DcMsg EXCEPT !.subtype = "announce_streams", !.streams = streams]
    IN  IF streams = {} /\ ~force THEN p
        ELSE IF target # 0
        THEN (IF ~p.connections[target].ready
              THEN P2PThrow(p, "p2p record not ready to announce streams")
              ELSE sendDatachannelPayload(p, payload, target))
        ELSE sendEach(p, payload, {c \in DOMAIN p.connections :
                                      p.connections[c].ready /\ ~p.connections[c].destroyed})

\* handleAnnounceStreams, first loop: the entries of the list against the
\* record's stream table
RECURSIVE announceDiff(_, _, _, _, _)
announceDiff(p, rec, L, seen, added) ==
    IF L = <<>> THEN [p |-> p, seen |-> seen, added |-> added]
    ELSE LET a       == Head(L)
             streams == p.connections[rec].streams
         IN  IF a.id \in DOMAIN streams
             THEN (IF p.srs[streams[a.id]].kind # a.kind
                   THEN announceDiff(p, rec, Tail(L), seen, added)
                   ELSE IF p.srs[streams[a.id]].token # a.token
                   THEN announceDiff(
                            [p EXCEPT !.callbacks = (a.token :> streams[a.id])
                                                    @@ Remove(@, p.srs[streams[a.id]].token),
                                      !.srs[streams[a.id]].token = a.token],
                            rec, Tail(L), seen \cup {a.id}, added)
                   ELSE announceDiff(p, rec, Tail(L), seen \cup {a.id}, added))
             ELSE announceDiff(p, rec, Tail(L), seen \cup {a.id}, Append(added, a))

\* one announcement that is taken: stream record, callback, sub-connection
announceTake(p, rec, a, srid, spc) ==
    LET bid == FreshBid(p)
        p1  == [p EXCEPT !.srs = @ @@ (srid :> [StreamRecord(a.id, a.kind, FALSE) EXCEPT
                                                   !.token = a.token]),
                         !.callbacks = (a.token :> srid) @@ @,
                         !.connections[rec].streams = (a.id :> srid) @@ @,
                         !.binders = @ @@ (bid :> PCRecord)]
        p2  == NewSpc(p1, SpcCell(p1, rec, bid, srid, FALSE, 0))
    IN  IF p.connections[rec].initiator THEN p2 ELSE subSignal(p2, spc, "noop")

\* handleAnnounceStreams, last loop: the added entries
RECURSIVE announceAdd(_, _, _)
announceAdd(p, rec, added) ==
    IF added = <<>> THEN p
    ELSE IF StreamRecord(Head(added).id, Head(added).kind, FALSE).kind # Head(added).kind
    THEN announceAdd(p, rec, Tail(added))
    ELSE announceAdd(announceTake(p, rec, Head(added), FreshSr(p), FreshSpc(p)), rec, Tail(added))

\* handleAnnounceStreams from the second loop on; d is the first loop's result
announceApply(p0, rec, d) ==
    LET streams == p0.connections[rec].streams
        removed == DOMAIN streams \ d.seen
        p1      == destroyAll(d.p, {streams[i] : i \in removed})
        p2      == [p1 EXCEPT !.connections[rec].streams = [i \in DOMAIN @ \ removed |-> @[i]]]
    IN  IF removed = {} /\ d.added = <<>> THEN d.p
        ELSE announceAdd(P2PEmit(p2, "p2p.announce_streams", rec), rec, d.added)

\* P2PController.handleAnnounceStreams
handleAnnounceStreams(p, rec, L) ==
    announceApply(p, rec, announceDiff(p, rec, L, {}, <<>>))

\* the check of a handshake_reply
handshakeAccepted(p, rec, ts, v) == ts = p.connections[rec].ts /\ v = P2PVersion

\* handleP2PMessage, case handshake_reply
handshakeReply(p, rec, ts, v) ==
    IF ~handshakeAccepted(p, rec, ts, v) THEN p
    ELSE announceStreams([p EXCEPT !.connections[rec].ready = TRUE], rec, FALSE)

\* the handshake_reply to a handshake
replyPayload(ts, v) == [DcMsg EXCEPT !.subtype = "handshake_reply", !.ts = ts, !.v = v]

\* faulty handshakeReceived: the reply a handshake carries is not looked at
handshakeReceived_NoPiggyback(p, rec, m) ==
    IF p.connections[rec].handshake.set THEN p
    ELSE LET p1 == [p EXCEPT !.connections[rec].handshake = Handshake(m.ts, m.v)]
         IN  IF p.connections[rec].connected
             THEN sendDatachannelPayload(p1, replyPayload(m.ts, m.v), rec)
             ELSE p1

\* handleP2PMessage, case handshake
handshakeReceived(p, rec, m) ==
    IF p.connections[rec].handshake.set THEN p
    ELSE LET p1 == [p EXCEPT !.connections[rec].handshake = Handshake(m.ts, m.v)]
             p2 == IF p.connections[rec].connected
                   THEN sendDatachannelPayload(p1, replyPayload(m.ts, m.v), rec)
                   ELSE p1
         IN  IF m.reply.set THEN handshakeReply(p2, rec, m.reply.ts, m.reply.v) ELSE p2

\* P2PController.handleP2PMessage
handleP2PMessage(p, rec, m) ==
    CASE m.subtype = "handshake" -> handshakeReceived(p, rec, m)
      [] m.subtype = "handshake_reply" -> handshakeReply(p, rec, m.ts, m.v)
      [] m.subtype = "announce_streams" -> handleAnnounceStreams(p, rec, m.streams)
      [] OTHER -> p

\* P2PController.handleData for a message that parsed as JSON
handleData(p, pc, m) ==
    IF pc \notin DOMAIN p.connections THEN p
    ELSE CASE m.type = "p2p" -> handleP2PMessage(p, pc, m)
           [] m.type = "webrtc" -> p2pHandleWebRTCMessage(p, pc, m)
           [] OTHER -> p

\* P2PController.registerConnection
registerConnection(p, pc, initiator) ==
    [p EXCEPT !.connections = (pc :> P2PRecord(initiator)) @@ @]

\* P2PController.handleConnect at time now
handleConnect(p, pc, now) ==
    IF pc \notin DOMAIN p.connections THEN p
    ELSE IF p.connections[pc].connected THEN p
    ELSE LET h == p.connections[pc].handshake
         IN  sendDatachannelPayload(
                 [p EXCEPT !.connections[pc].ts = now, !.connections[pc].connected = TRUE],
                 [DcMsg EXCEPT !.subtype = "handshake", !.ts = now, !.v = P2PVersion,
                               !.reply = IF h.set THEN Handshake(h.ts, h.v) ELSE NoHandshake],
                 pc)

\* P2PController.handleClose
handleClose(p, pc) ==
    IF pc \notin DOMAIN p.connections THEN p
    ELSE [destroyAll(p, Range(p.connections[pc].streams)) EXCEPT !.connections = Remove(@, pc)]

\* P2PController.setLocalStream; token is the random token of a new record
p2pSetLocalStream(p, id, kind, stream, token) ==
    IF stream
    THEN LET rec0 == StreamRecord(id, kind, TRUE)
             srid == FreshSr(p)
         IN  IF id \in DOMAIN p.localStreams
             THEN (IF p.srs[p.localStreams[id]].kind # rec0.kind
                   THEN P2PThrow(p, "p2p set local stream with different kind")
                   ELSE [p EXCEPT
                            !.srs = @ @@ (srid :> [rec0 EXCEPT
                                !.connections = p.srs[p.localStreams[id]].connections,
                                !.token = p.srs[p.localStreams[id]].token]),
                            !.spcs = [x \in DOMAIN @ |->
                                         IF @[x].srid = p.localStreams[id]
                                         THEN [@[x] EXCEPT !.srid = srid] ELSE @[x]],
                            !.localStreams[id] = srid,
                            !.callbacks = (p.srs[p.localStreams[id]].token :> srid) @@ @])
             ELSE announceStreams(
                      [p EXCEPT !.srs = @ @@ (srid :> [rec0 EXCEPT !.token = token]),
                                !.localStreams = (id :> srid) @@ @,
                                !.callbacks = (token :> srid) @@ @],
                      0, TRUE)
    ELSE IF id \in DOMAIN p.localStreams
    THEN announceStreams(
             streamDestroy([p EXCEPT !.localStreams = Remove(@, id),
                                     !.callbacks = Remove(@, p.srs[p.localStreams[id]].token)],
                           p.localStreams[id]),
             0, TRUE)
    ELSE announceStreams(p, 0, TRUE)

\* the close handler of sub-connection spc
subPcClose(p, spc) ==
    IF p.binders[p.spcs[spc].bid].pc # spc THEN p
    ELSE P2PEmit([p EXCEPT !.binders[p.spcs[spc].bid].pc = 0], "pc.closed", spc)

\* the messages a peer can send on a data channel
HandshakeMsgs ==
    {[DcMsg EXCEPT !.subtype = "handshake", !.ts = ts, !.v = v, !.reply = r] :
        ts \in {PeerNow}, v \in {P2PVersion, P2PVersion - 1},
        r \in {NoHandshake} \cup {Handshake(t, P2PVersion) : t \in Stamps}}

ReplyMsgs ==
    {replyPayload(ts, v) : ts \in Stamps, v \in {P2PVersion, P2PVersion - 1}}

Announcements == [id : StreamIds, kind : Kinds, token : Tokens]

AnnounceMsgs ==
    {[DcMsg EXCEPT !.subtype = "announce_streams", !.streams = L] :
        L \in UNION {[1..n -> Announcements] : n \in 0..MaxAnnounce}}

DcWebrtcMsgs ==
    {[DcMsg EXCEPT !.type = "webrtc", !.subtype = "webrtc_signal", !.v = v, !.source = src,
                   !.pcid = q, !.data = d] :
        v \in {0, Version - 1, Version}, src \in Tokens \cup LocalTokens, q \in 0..2,
        d \in {"none", "renegotiate", "noop", "sdp"}}

DcMsgs == HandshakeMsgs \cup ReplyMsgs \cup AnnounceMsgs \cup DcWebrtcMsgs
          \cup {[DcMsg EXCEPT !.type = "other"]}

\* what is left of the controller once the handler has returned
P2PCollect(p) ==
    LET timers == Range(p.pend)
        liveSr == Range(p.localStreams) \cup Range(p.callbacks)
                  \cup UNION {Range(p.connections[c].streams) : c \in DOMAIN p.connections}
                  \cup {p.spcs[x].srid : x \in timers}
        liveB  == UNION {Range(p.srs[i].connections) : i \in liveSr}
                  \cup {p.spcs[x].bid : x \in timers}
        livePc == ({p.binders[b].pc : b \in liveB} \ {0}) \cup timers
    IN  [p EXCEPT !.srs = [i \in liveSr |-> p.srs[i]],
                  !.binders = [b \in liveB |-> p.binders[b]],
                  !.spcs = [i \in livePc |-> p.spcs[i]],
                  !.sent = <<>>, !.events = <<>>, !.err = ""]

P2PCommit(p) ==
    /\ steps < MaxP2PSteps
    /\ steps' = steps + 1
    /\ p2p' = P2PCollect(p)
    /\ UNCHANGED <<user, channel, opts, group, peers, heap, pcs, localStream, pend, kwm,
                   backoff, turn, connected, link>>

InitP2P ==
    /\ EngineIdle
    /\ kwm = KWM(TRUE)
    /\ backoff = Backoff(0)
    /\ turn = Turn
    /\ link = Link
    /\ p2p = P2P

\* getPeerConnection of the engine registers the new pc
RegisterConnection == \E initiator \in BOOLEAN :
    /\ Cardinality(DOMAIN p2p.connections) < MaxConns
    /\ P2PCommit(registerConnection(p2p, FreshConn(p2p), initiator))

\* the connect event of a record's current pc
HandleConnect == \E pc \in DOMAIN p2p.connections :
    /\ ~p2p.connections[pc].destroyed
    /\ P2PCommit(handleConnect(p2p, pc, Now))

\* the close event of a record's current pc
HandleClose == \E pc \in DOMAIN p2p.connections :
    P2PCommit(handleClose(p2p, pc))

\* the engine destroys a pc; its close event comes later or is dropped
DestroyConnection == \E pc \in DOMAIN p2p.connections :
    /\ ~p2p.connections[pc].destroyed
    /\ P2PCommit([p2p EXCEPT !.connections[pc].destroyed = TRUE])

\* the data event of a record's current pc
HandleData == \E pc \in DOMAIN p2p.connections, m \in DcMsgs :
    /\ ~p2p.connections[pc].destroyed
    /\ P2PCommit(handleData(p2p, pc, m))

\* WebRTCBaseManager.setScreenshareStream
SetScreenshareStream == \E id \in LocalStreamIds, stream \in BOOLEAN :
    LET free == LocalTokens \ DOMAIN p2p.callbacks
    IN  /\ (stream /\ id \notin DOMAIN p2p.localStreams) => free # {}
        /\ P2PCommit(p2pSetLocalStream(p2p, id, "screenshare", stream,
                                       IF free = {} THEN "" ELSE CHOOSE t \in free : TRUE))

\* a sub-connection closes
SubPcClose == \E spc \in DOMAIN p2p.spcs :
    P2PCommit(subPcClose(p2p, spc))

NextP2P ==
    \/ RegisterConnection
    \/ HandleConnect
    \/ HandleClose
    \/ DestroyConnection
    \/ HandleData
    \/ SetScreenshareStream
    \/ SubPcClose

SpecP2P == InitP2P /\ [][NextP2P]_vars

\* the engine and the P2P Controller of one client, each running while the
\* other one is as it was constructed
NextChannels ==
    \/ (p2p = P2P /\ Next)
    \/ (pcs = EmptyMap /\ ~connected /\ NextP2P)

SpecChannels == Init /\ [][NextChannels]_vars

----------------------------------------------------------------------------
(* Two P2P Controllers at the ends of one peer connection.  Each side has
   registered the connection under id 1; what a side hands to pc.send() is
   appended to the channel towards the other side, which delivers in order. *)

Sides == {"a", "b"}

Other(side) == IF side = "a" THEN "b" ELSE "a"

\* the channel that delivers to side
Inbox(side) == IF side = "a" THEN "toA" ELSE "toB"

\* Date.now() at a connect event
ConnectTimes == {1, 2, 3}

\* the payloads a handler handed to pc.send(), in order
Payloads(q) == [i \in DOMAIN q |-> q[i].payload]

\* the handler of side has run and left controller p: what it sent is on the
\* way to the other side
LinkCommit(side, p, inbox) ==
    link' = [link EXCEPT ![side] = P2PCollect(p),
                         ![Inbox(side)] = inbox,
                         ![Inbox(Other(side))] = @ \o Payloads(p.sent)]

LinkFrame ==
    UNCHANGED <<user, channel, opts, group, peers, heap, pcs, localStream, pend, kwm,
                backoff, turn, p2p, connected, steps>>

InitLink ==
    /\ EngineIdle
    /\ kwm = KWM(TRUE)
    /\ backoff = Backoff(0)
    /\ turn = Turn
    /\ p2p = P2P
    /\ link = Link

\* getPeerConnection on both clients: each registers its end, one of them as
\* the initiator
LinkRegister == \E i \in BOOLEAN :
    /\ DOMAIN link.a.connections = {}
    /\ DOMAIN link.b.connections = {}
    /\ link' = [link EXCEPT !.a = registerConnection(@, 1, i),
                            !.b = registerConnection(@, 1, ~i)]
    /\ LinkFrame

\* the connect event of the pc of side
LinkConnect(side) == \E now \in ConnectTimes :
    /\ 1 \in DOMAIN link[side].connections
    /\ ~link[side].connections[1].connected
    /\ LinkCommit(side, handleConnect(link[side], 1, now), link[Inbox(side)])
    /\ LinkFrame

\* the data event of the pc of side: the oldest message of its channel
LinkData(side) ==
    /\ 1 \in DOMAIN link[side].connections
    /\ link[Inbox(side)] # <<>>
    /\ LinkCommit(side, handleData(link[side], 1, Head(link[Inbox(side)])),
                  Tail(link[Inbox(side)]))
    /\ LinkFrame

NextLink ==
    \/ LinkRegister
    \/ LinkConnect("a")
    \/ LinkConnect("b")
    \/ LinkData("a")
    \/ LinkData("b")

\* the data channel delivers what was sent
SpecLink ==
    InitLink /\ [][NextLink]_vars /\ WF_vars(LinkData("a")) /\ WF_vars(LinkData("b"))

----------------------------------------------------------------------------
(* The P2P Controller with the failures of its sub-connections: errors,    *)
(* signals that cannot be sent because the parent pc is destroyed, and the *)
(* timers of the recovery.                                                 *)

MaxSubSteps == 8

\* what the peer sends in this setting: announcements of one screen share
\* and nested signals for it
SubMsgs ==
    {[DcMsg EXCEPT !.subtype = "announce_streams", !.streams = L] :
        L \in {<<>>, <<[id |-> "s1", kind |-> "screenshare", token |-> "t1"]>>}}
    \cup {[DcMsg EXCEPT !.type = "webrtc", !.subtype = "webrtc_signal", !.v = Version,
                        !.source = "t1", !.pcid = q, !.data = d] :
             q \in {1, 2}, d \in {"noop", "sdp"}}

SubCommit(p) ==
    /\ steps < MaxSubSteps
    /\ steps' = steps + 1
    /\ p2p' = P2PCollect(p)
    /\ UNCHANGED <<user, channel, opts, group, peers, heap, pcs, localStream, pend, kwm,
                   backoff, turn, connected, link>>

SubRegister == \E initiator \in BOOLEAN :
    /\ p2p.connections = EmptyMap
    /\ SubCommit(registerConnection(p2p, FreshConn(p2p), initiator))

SubParentClose == \E pc \in DOMAIN p2p.connections :
    SubCommit(handleClose(p2p, pc))

SubParentDestroy == \E pc \in DOMAIN p2p.connections :
    /\ ~p2p.connections[pc].destroyed
    /\ SubCommit([p2p EXCEPT !.connections[pc].destroyed = TRUE])

SubData == \E pc \in DOMAIN p2p.connections, m \in SubMsgs :
    /\ ~p2p.connections[pc].destroyed
    /\ SubCommit(handleData(p2p, pc, m))

\* a sub-connection fails: it is destroyed with an error
SubPcError == \E spc \in DOMAIN p2p.spcs :
    /\ ~p2p.spcs[spc].destroyed
    /\ SubCommit(subError([p2p EXCEPT !.spcs[spc].destroyed = TRUE], spc))

\* a sub-connection has a signal for the peer
SubPcSignal == \E spc \in DOMAIN p2p.spcs :
    /\ ~p2p.spcs[spc].destroyed
    /\ SubCommit(subSignal(p2p, spc, "sdp"))

\* the close event of a sub-connection that was destroyed
SubPcClosed == \E spc \in DOMAIN p2p.spcs :
    /\ p2p.spcs[spc].destroyed
    /\ SubCommit(subPcClose(p2p, spc))

\* the oldest recovery timer expires
SubRecoverTimer ==
    /\ p2p.pend # <<>>
    /\ SubCommit(subRecoverTimer(p2p))

NextSub ==
    \/ SubRegister
    \/ SubParentClose
    \/ SubParentDestroy
    \/ SubData
    \/ SubPcError
    \/ SubPcSignal
    \/ SubPcClosed
    \/ SubRecoverTimer

SpecSub == InitP2P /\ [][NextSub]_vars

----------------------------------------------------------------------------
(* Properties.  A property about an operation is stated of the operation   *)
(* applied to every reachable state: r is the engine after the handler,    *)
(* r.sent what it handed to the transport, r.events what it dispatched,    *)
(* r.err what it threw and r.ret what it returned.                         *)

\* the webrtc_hangup envelopes among the payloads q
Hangups(q) == {i \in DOMAIN q : q[i].subtype = "webrtc_hangup"}

\* the engine a handler left, as the next handler finds it
Settled(r) == [r EXCEPT !.sent = <<>>, !.events = <<>>, !.toP2P = <<>>, !.err = "", !.ret = ""]

\* the handler changed no field of the engine
SameEngine(s, r) ==
    /\ r.user = s.user
    /\ r.channel = s.channel
    /\ r.opts = s.opts
    /\ r.group = s.group
    /\ r.peers = s.peers
    /\ r.heap = s.heap
    /\ r.pcs = s.pcs
    /\ r.localStream = s.localStream
    /\ r.pend = s.pend

\* the record closure c created is the one the table holds for c.user
RecordStored(c) == c.user \in DOMAIN peers /\ peers[c.user] = c.rid

\* C1 as claimed: in every reachable state channel is empty if and only if
\* the peer table is empty, no group is set and channelOptions is empty
C1_ChannelEmptyIffIdle ==
    (channel = "") <=> (peers = EmptyMap /\ group = 0 /\ opts = 0)

\* C1 amended: in every reachable state with an empty channel, channelOptions
\* is empty and the peer table holds nothing but records doCall created for
\* an outgoing call
C1_NoChannelOnlyOutgoing ==
    channel = "" =>
        /\ opts = 0
        /\ \A k \in DOMAIN peers :
              /\ heap[peers[k]].initiator
              /\ heap[peers[k]].cid = ""
              /\ Falsy(heap[peers[k]].group)

\* the record of a doCall whose request failed is in the table, without channel
C1_Witness ==
    /\ channel = ""
    /\ pend = {}
    /\ \E k \in DOMAIN peers : heap[peers[k]].initiator

\* C2: doCall(user) fails with 'already have a channel' when a channel is
\* active and with 'peer already exists' when the table holds a record for
\* user; then no record is created, nothing of the engine changes and no
\* envelope is sent
C2_DoCallGuards ==
    \A u \in RemoteIds, n \in Nonces :
        LET r == doCall(St, u, n)
        IN  /\ channel # "" => r.err = "already have a channel"
            /\ (channel = "" /\ u \in DOMAIN peers) => r.err = "peer already exists"
            /\ (channel # "" \/ u \in DOMAIN peers) => SameEngine(St, r) /\ r.sent = <<>>

\* doCall for a user whose record is in the table while no channel is active
C2_Witness ==
    \E u \in DOMAIN peers :
        /\ channel = ""
        /\ doCall(St, u, "n1").err = "peer already exists"

IncomingFromOther(c) ==
    \E k \in DOMAIN peers : k # c.user /\ ~heap[peers[k]].initiator

\* C4: the channel doCall resolves with is the channel the server assigned to
\* the call in its webrtc_channel reply, also when an incoming call from
\* another user was taken in while doCall waited
C4_ResolvesWithAssignedChannel ==
    \A c \in pend : \A m \in RepliesTo(c), n1, n2 \in Nonces :
        (/\ c.k = "doCall"
         /\ RecordStored(c)
         /\ IncomingFromOther(c)
         /\ m.subtype = "webrtc_channel"
         /\ m.v >= Version) =>
            LET r == doCallResume(Without(c), c, m, n1, n2)
            IN  r.err = "" => r.ret = m.channel

\* C5: when the record doCall created is no longer the one stored for the
\* user as the reply arrives, doCall fails and the reply is not processed:
\* channel, every record, the peer table and the pcs are as they were and
\* nothing is sent
C5_StaleRecordIgnoresReply ==
    \A c \in pend : \A m \in RepliesTo(c), n1, n2 \in Nonces :
        (c.k = "doCall" /\ ~RecordStored(c)) =>
            LET r == doCallResume(Without(c), c, m, n1, n2)
            IN  /\ r.err = "unknown or invalid peer"
                /\ SameEngine(Without(c), r)
                /\ r.sent = <<>>
                /\ r.events = <<>>

\* the record of a pending doCall was replaced by an incoming call of the
\* same user, and the reply makes doCall fail
C5_Witness ==
    \E c \in pend : \E m \in RepliesTo(c) :
        /\ c.k = "doCall"
        /\ c.user \in DOMAIN peers
        /\ peers[c.user] # c.rid
        /\ m.subtype = "webrtc_channel"
        /\ doCallResume(Without(c), c, m, "n1", "n1").err = "unknown or invalid peer"

\* the closure of a doAnswer(u) that has sent and awaits the send's resolution
AnswerClosure(u) == [Closure("doAnswer") EXCEPT !.user = u, !.rid = peers[u]]

\* C6: doAnswer(user) fails and sends nothing without a channel or without a
\* record for user; otherwise it hands exactly one webrtc_call envelope with
\* data {accept: true, state: record.ref} and the record's transaction to the
\* transport, and once the send has resolved the record's transaction is
\* empty, so that a later doAnswer or doReject sends an empty transaction
C6_DoAnswer ==
    \A u \in RemoteIds :
        LET r == doAnswer(St, u)
        IN  /\ channel = "" => r.err = "no channel" /\ r.sent = <<>>
            /\ (channel # "" /\ u \notin DOMAIN peers) =>
                   r.err = "no matching peer" /\ r.sent = <<>>
            /\ (channel # "" /\ u \in DOMAIN peers) =>
                   /\ Len(r.sent) = 1
                   /\ r.sent[1].subtype = "webrtc_call"
                   /\ r.sent[1].target = u
                   /\ r.sent[1].data =
                          [accept |-> TRUE, reason |-> Undef, state |-> heap[peers[u]].ref]
                   /\ r.sent[1].transaction = heap[peers[u]].transaction
                   /\ r.sent[1].ok = connected
                   /\ connected =>
                          /\ AnswerClosure(u) \in r.pend
                          /\ LET r2 == doAnswerResume(
                                           [Settled(r) EXCEPT !.pend = @ \ {AnswerClosure(u)}],
                                           AnswerClosure(u))
                             IN  /\ r2.err = ""
                                 /\ r2.heap[peers[u]].transaction = ""
                                 /\ doAnswer(Settled(r2), u).sent[1].transaction = ""
                                 /\ doReject(Settled(r2), u, "reject").sent[1].transaction = ""

\* doAnswer for an incoming call that carries a transaction, on an open socket
C6_Witness ==
    \E u \in DOMAIN peers :
        /\ channel # ""
        /\ connected
        /\ heap[peers[u]].transaction = "t1"
        /\ doAnswer(St, u).sent[1].transaction = "t1"

\* C7: doReject(user, reason) with a channel and a record for user hands one
\* webrtc_call envelope with accept: false and the reason to the transport,
\* removes the record from the table, destroys its pc and sends no
\* webrtc_hangup
C7_DoReject ==
    \A u \in RemoteIds, reason \in {"reject", "busy"} :
        (channel # "" /\ u \in DOMAIN peers) =>
            LET r == doReject(St, u, reason)
                rec == heap[peers[u]]
            IN  /\ r.err = ""
                /\ Len(r.sent) = 1
                /\ r.sent[1].subtype = "webrtc_call"
                /\ r.sent[1].target = rec.user
                /\ r.sent[1].data = [accept |-> FALSE, reason |-> reason, state |-> rec.ref]
                /\ r.sent[1].transaction = rec.transaction
                /\ u \notin DOMAIN r.peers
                /\ rec.pc # 0 => r.pcs[rec.pc].destroyed /\ r.heap[peers[u]].pc = 0
                /\ Hangups(r.sent) = {}

\* doReject of a peer that has a live pc
C7_Witness ==
    \E u \in DOMAIN peers :
        /\ channel # ""
        /\ heap[peers[u]].pc # 0
        /\ ~pcs[heap[peers[u]].pc].destroyed
        /\ u \notin DOMAIN doReject(St, u, "reject").peers

\* C8: after doHangup with an empty user, channel is empty, the group unset,
\* channelOptions empty, the peer table empty and every pc that was bound to
\* a peer destroyed, connected or not; with a reason one webrtc_hangup is
\* handed to the transport for the group record and one for each peer, with
\* an empty reason none
C8_FullHangup ==
    \A reason \in Reasons :
        LET r == doHangup(St, "", reason)
        IN  /\ r.err = ""
            /\ r.ret = channel
            /\ r.channel = ""
            /\ r.group = 0
            /\ r.opts = 0
            /\ r.peers = EmptyMap
            /\ \A k \in DOMAIN peers :
                  heap[peers[k]].pc # 0 => r.pcs[heap[peers[k]].pc].destroyed
            /\ \A i \in DOMAIN r.sent :
                  /\ r.sent[i].subtype = "webrtc_hangup"
                  /\ r.sent[i].channel = channel
                  /\ r.sent[i].data.reason = reason
                  /\ r.sent[i].ok = connected
            /\ reason = "" => r.sent = <<>>
            /\ reason # "" =>
                  /\ Len(r.sent) = Cardinality(DOMAIN peers) + (IF group # 0 THEN 1 ELSE 0)
                  /\ \A k \in DOMAIN peers :
                        \E i \in DOMAIN r.sent : r.sent[i].target = heap[peers[k]].user
                  /\ group # 0 => r.sent[1].target = heap[group].user

\* a full hangup of a group call with a live pc, on a closed socket
C8_Witness ==
    /\ ~connected
    /\ group # 0
    /\ \E k \in DOMAIN peers :
          /\ heap[peers[k]].pc # 0
          /\ ~pcs[heap[peers[k]].pc].destroyed
    /\ Len(doHangup(St, "", "hangup").sent) = Cardinality(DOMAIN peers) + 1

\* the incoming calls that carry a source and a target
BusyCalls ==
    {m \in CallMsgs : /\ m.subtype = "webrtc_call"
                      /\ m.initiator
                      /\ m.source # ""
                      /\ m.target # ""
                      /\ m.v >= Version}

\* C9: while a channel is active, an incoming webrtc_call with a source and a
\* target is answered with exactly one webrtc_call envelope carrying
\* {accept: false, reason: 'reject_busy', state: the caller's state}; no
\* record is added or replaced, no incomingcall is dispatched and the channel
\* stays
C9_BusyReject ==
    \A m \in BusyCalls, n1, n2 \in Nonces :
        channel # "" =>
            LET r == handleWebRTCMessage(St, m, n1, n2)
            IN  /\ Len(r.sent) = 1
                /\ r.sent[1].subtype = "webrtc_call"
                /\ r.sent[1].target = m.source
                /\ r.sent[1].data =
                       [accept |-> FALSE, reason |-> "reject_busy", state |-> m.state]
                /\ r.peers = peers
                /\ r.heap = heap
                /\ \A i \in DOMAIN r.events : r.events[i].event # "incomingcall"
                /\ r.channel = channel

\* a call of a user whose record is in the table arrives while a channel is active
C9_Witness ==
    \E m \in BusyCalls :
        /\ channel # ""
        /\ m.source \in DOMAIN peers
        /\ handleWebRTCMessage(St, m, "n1", "n1").sent[1].data.reason = "reject_busy"

\* the answers doAnswer handed to the transport for user u
AnswersTo(q, u) ==
    {i \in DOMAIN q : q[i].subtype = "webrtc_call" /\ q[i].target = u /\ q[i].data.accept}

\* C10: after a webrtc_channel of the current group with members M (user
\* set, group established, self in M) the table ids with empty cid are M
\* without self: peers not in M are hung up without a webrtc_hangup, every
\* member that is missing or whose pc is missing or destroyed gets a new
\* record with the group's hash and one doAnswer, also when sends fail
C10_MeshReconciled ==
    \A m \in GroupChannelMsgs, n \in Nonces :
        (/\ user # ""
         /\ group # 0
         /\ channel = m.channel
         /\ heap[group].gchannel = m.channel
         /\ heap[group].gid = m.data.group.group
         /\ user \in m.data.group.members) =>
            LET r == handleWebRTCMessage(St, m, n, n)
                M == m.data.group.members \ {user}
            IN  /\ {k \in DOMAIN r.peers : r.heap[r.peers[k]].cid = ""} = M
                /\ Hangups(r.sent) = {}
                /\ \A u \in M :
                      (\/ u \notin DOMAIN peers
                       \/ heap[peers[u]].pc = 0
                       \/ pcs[heap[peers[u]].pc].destroyed) =>
                          /\ r.peers[u] \notin DOMAIN heap
                          /\ r.heap[r.peers[u]].hash = heap[group].hash
                          /\ Cardinality(AnswersTo(r.sent, u)) = 1

\* C11: after a webrtc_channel of the current group with reset set and
\* members M (self in M), the mesh was torn down and built again: the table
\* ids with empty cid are M without self and every such record is one
\* created by this message
C11_ResetRebuildsMesh ==
    \A m \in GroupChannelMsgs, n \in Nonces :
        (/\ m.data.group.reset
         /\ user # ""
         /\ group # 0
         /\ channel = m.channel
         /\ heap[group].gchannel = m.channel
         /\ heap[group].gid = m.data.group.group
         /\ user \in m.data.group.members) =>
            LET r == handleWebRTCMessage(St, m, n, n)
                M == m.data.group.members \ {user}
            IN  /\ {k \in DOMAIN r.peers : r.heap[r.peers[k]].cid = ""} = M
                /\ \A u \in M : r.peers[u] \notin DOMAIN heap

\* the user lists doMesh is called with
MeshLists == {sortMembers(M) : M \in MemberSets \cup {{}}}

\* C12: doMesh fails with 'no user' without a user, with 'no channel'
\* without a channel and with 'mesh without self' when the list does not
\* contain the user; then the engine is as it was: no peer hung up, no
\* record created, no envelope sent
C12_DoMeshGuards ==
    \A users \in MeshLists, grid \in DOMAIN heap :
        LET r == doMesh(St, users, grid)
        IN  /\ user = "" => r.err = "no user"
            /\ (user # "" /\ channel = "") => r.err = "no channel"
            /\ (user # "" /\ channel # "" /\ user \notin SeqRange(users)) =>
                   r.err = "mesh without self"
            /\ (user = "" \/ channel = "" \/ user \notin SeqRange(users)) =>
                   /\ SameEngine(St, r)
                   /\ r.sent = <<>>
                   /\ r.events = <<>>

\* doMesh with the empty list while a call with a peer is up
C12_Witness ==
    /\ user # ""
    /\ channel # ""
    /\ \E k \in DOMAIN peers :
          /\ heap[peers[k]].cid = ""
          /\ doMesh(St, <<>>, peers[k]).err = "mesh without self"

\* the id a hello stands for: self.id, or the id KWM knows when self is missing
HelloUser(id) == IF id # "" THEN id ELSE KwmUser

\* C13: a hello whose id differs from the recorded user while a channel is
\* active hangs up everything (channel empty, table empty, group unset) and
\* records the new id; a hello with the recorded id leaves channel and table
\* as they are
C13_HelloUserChange ==
    \A id \in SelfIds \cup {""}, n \in Nonces :
        LET r == handleHello(St, id, n)
        IN  /\ (user # "" /\ channel # "" /\ HelloUser(id) # user) =>
                   /\ r.channel = ""
                   /\ r.peers = EmptyMap
                   /\ r.group = 0
                   /\ r.user = HelloUser(id)
            /\ HelloUser(id) = user =>
                   /\ r.channel = channel
                   /\ r.peers = peers
                   /\ \A k \in DOMAIN peers : r.heap[peers[k]] = heap[peers[k]]
                   /\ r.user = user

\* a hello for another user arrives while a call with a peer is up
C13_Witness ==
    /\ user # ""
    /\ channel # ""
    /\ peers # EmptyMap
    /\ \E id \in SelfIds, n \in Nonces :
          /\ id # user
          /\ handleHello(St, id, n).peers = EmptyMap

\* the user ids a peer record can bear: doCall accepts every id, the own one
\* included
EndpointIds == SelfIds \cup RemoteIds

\* the record an endpoint holds for user u
RecordFor(u) == [PeerRecord EXCEPT !.id = u, !.user = u]

\* a >= b in the order of the strings, the empty string being below every id
LexGeq(a, b) == a # "" /\ Rank[a] >= Rank[b]

\* what the endpoint of user b computes for its record of this endpoint
RemoteInitiator(b) == computeInitiator([St EXCEPT !.user = b], RecordFor(user))

\* C14 as claimed: computeInitiator is true exactly when the local id is
\* greater than or equal to the remote id, and of the two endpoints of every
\* pair exactly one computes true
C14_ExactlyOneInitiator ==
    \A b \in EndpointIds :
        /\ computeInitiator(St, RecordFor(b)) <=> LexGeq(user, b)
        /\ user # "" => computeInitiator(St, RecordFor(b)) # RemoteInitiator(b)

\* C14 amended: computeInitiator is true exactly when the local id is greater
\* than or equal to the remote id; of two endpoints with different ids
\* exactly one computes true, and of two endpoints with the same id both do
C14_OneInitiatorUnlessTie ==
    \A b \in EndpointIds :
        /\ computeInitiator(St, RecordFor(b)) <=> LexGeq(user, b)
        /\ (user # "" /\ b # user) =>
               computeInitiator(St, RecordFor(b)) # RemoteInitiator(b)
        /\ (user # "" /\ b = user) =>
               computeInitiator(St, RecordFor(b)) /\ RemoteInitiator(b)

\* a peer connection was created with the initiator flag computed for its
\* record, once as initiator and once not
C14_Witness ==
    /\ user # ""
    /\ \E k \in DOMAIN peers :
          /\ heap[peers[k]].pc # 0
          /\ pcs[heap[peers[k]].pc].initiator = computeInitiator(St, heap[peers[k]])
          /\ computeInitiator(St, heap[peers[k]]) # RemoteInitiator(k)

\* record rid took its hash from an accepted call reply of the current group
HashExchanged(rid) ==
    \E m \in MeshMsgs \cup CallMsgs, n1, n2 \in Nonces :
        /\ m.subtype = "webrtc_call"
        /\ ~m.initiator
        /\ m.data.accept
        /\ m.group # ""
        /\ group # 0
        /\ heap[rid].group = m.group
        /\ heap[group].gid = m.group
        /\ m.source \in DOMAIN peers
        /\ peers[m.source] = rid
        /\ heap'[rid].hash = m.hash
        /\ Commit(handleWebRTCMessage(St, m, n1, n2))

\* the controller's record rid took its hash from the reply to a refresh
HashRefreshed(rid) ==
    \E c \in pend, m \in GroupReplyMsgs, n1, n2 \in Nonces :
        /\ c.k = "refreshGroup"
        /\ c.rid = rid
        /\ heap'[rid].hash = m.hash
        /\ Commit(refreshGroupResume(Without(c), c, m, n1, n2))

\* a step gives record rid, whose hash was assigned, another hash
HashChanges(rid) ==
    /\ rid \in DOMAIN heap'
    /\ heap[rid].hash # ""
    /\ heap'[rid].hash # heap[rid].hash

\* C15 as claimed: the assigned hash of a record, of the table or of the
\* group controller, changes in no step but the hash exchange of an accepted
\* call reply of the current group
C15_HashOnlyByExchange ==
    [][\A rid \in DOMAIN heap : HashChanges(rid) => HashExchanged(rid)]_vars

\* C15 amended: the assigned hash of a record changes only in the hash
\* exchange of an accepted call reply of the current group and, for the
\* record of the group controller, when the reply to a group refresh arrives
C15_HashByExchangeOrRefresh ==
    [][\A rid \in DOMAIN heap :
          HashChanges(rid) => (HashExchanged(rid) \/ HashRefreshed(rid))]_vars

\* an accepted call reply of the current group is about to replace the hash
\* of a record of the mesh
C15_Witness ==
    /\ group # 0
    /\ \E m \in MeshMsgs, n \in Nonces :
          /\ m.subtype = "webrtc_call"
          /\ m.data.accept
          /\ m.source \in DOMAIN peers
          /\ heap[peers[m.source]].hash # ""
          /\ heap[peers[m.source]].hash # m.hash
          /\ handleWebRTCMessage(St, m, n, n).heap[peers[m.source]].hash = m.hash

\* C16: while a local stream target is set, no pc in use other than the pc of
\* the target record has the local stream or one of its tracks
C16_StreamOnlyOnTarget ==
    opts # 0 =>
        \A k \in DOMAIN peers :
            (/\ peers[k] # opts
             /\ heap[peers[k]].pc # 0
             /\ ~pcs[heap[peers[k]].pc].destroyed) =>
                pcs[heap[peers[k]].pc].media = {}

\* the channel is empty after the hangup that gave h and still empty after
\* the envelope m that follows it
StaysEmpty(h, m, n) ==
    /\ h.channel = ""
    /\ handleWebRTCMessage(Settled(h), m, n, n).channel = ""

\* C17: after a full hangup of a session with channel c, an inbound
\* webrtc_channel for c leaves the channel empty
C17_NoChannelAfterHangup ==
    \A reason \in Reasons, m \in MeshMsgs \cup CallMsgs, n \in Nonces :
        (/\ channel # ""
         /\ m.subtype = "webrtc_channel"
         /\ m.channel = channel) =>
            StaysEmpty(doHangup(St, "", reason), m, n)

\* connect() was called for promise c and waits for its bootstrap request
\* while auto-reconnect is on
Bootstrapping(c) ==
    /\ Task("bootstrap", 0, c) \in kwm.tasks
    /\ c \in DOMAIN kwm.calls
    /\ kwm.reconnecting

\* C18: when the bootstrap request of connect() fails with HTTP 403 while
\* auto-reconnect is on, auto-reconnect is turned off, an error event is
\* dispatched, no reconnect is scheduled and the promise of connect() is not
\* resolved
C18_ForbiddenNotResolved ==
    \A c \in DOMAIN kwm.calls :
        Bootstrapping(c) =>
            LET r == bootstrapped(KWithout(Task("bootstrap", 0, c)), c, "http_error_403")
            IN  /\ ~r.reconnecting
                /\ \E i \in DOMAIN r.events : r.events[i] = "error"
                /\ ~r.reconnector.armed
                /\ r.calls[c] # "resolved"

\* the reply timer of ping id is armed and the socket the ping was sent on is
\* still the socket of the KWM object
PingOutstanding(id) ==
    /\ kwm.handlers[id].timer
    /\ kwm.handlers[id].kind = "ping"
    /\ kwm.socket # 0
    /\ kwm.handlers[id].sock = kwm.socket

\* what the reply timeout of an outstanding ping does: the socket is given up
\* and queued for close(), connected is false, a state-changed event is
\* dispatched and, with reconnect enabled now and when the socket was
\* created, the reconnector timer is armed
ClosedByHeartbeat(id, r) ==
    /\ r.socket = 0
    /\ ~r.connected
    /\ Task("close", kwm.socket, 0) \in r.tasks
    /\ \E i \in DOMAIN r.events : r.events[i] = "statechanged"
    /\ (kwm.reconnecting /\ kwm.socks[kwm.socket].recon) => r.reconnector.armed

\* C19: a ping without a pong before its reply timeout, on a socket that is
\* still current, makes the client close the socket and leave the connected
\* state with a state-changed event; with reconnect enabled the reconnector
\* timer is then armed, and an armed timer leads to connect() being run again
\* unless reconnect is turned off first
C19_PingTimeoutReconnects ==
    /\ [](\A id \in DOMAIN kwm.handlers :
             PingOutstanding(id) => ClosedByHeartbeat(id, replyTimedOut(kwm, id)))
    /\ (kwm.reconnector.armed /\ CanRetry) ~> (kwm.connecting \/ ~kwm.reconnecting)

\* a ping has timed out on the current socket: the socket is given up, not
\* yet closed, and the reconnector timer is armed
C19_Witness ==
    /\ kwm.socket = 0
    /\ ~kwm.connecting
    /\ kwm.reconnector.armed
    /\ \E t \in kwm.tasks : t.k = "close" /\ kwm.socks[t.sock].ready = "open"
    /\ \E id \in DOMAIN kwm.handlers :
          kwm.handlers[id].kind = "ping" /\ kwm.handlers[id].settled

\* the resolve calls a handler run made for request n
Resolves(r, n) == {i \in DOMAIN r.resolved : r.resolved[i].id = n}

\* C20: an envelope on the current socket resolves the reply handler of
\* request n exactly when its reply_to, or the id of a pong, is n and the
\* handler is registered: it is then resolved once, with that envelope (an
\* error envelope included), and is registered no more; an envelope that
\* carries reply_to reaches no type handler
C20_ReplyHandlers ==
    \A m \in KwmMsgs, n \in 1..MaxSeq :
        kwm.socket # 0 =>
            LET r == handleWebSocketMessage(kwm, kwm.socket, m)
                answers == (m.type = "pong" /\ m.id = n) \/ (m.type # "pong" /\ m.reply_to = n)
            IN  /\ (answers /\ n \in DOMAIN kwm.handlers) =>
                       /\ Cardinality(Resolves(r, n)) = 1
                       /\ \A i \in Resolves(r, n) : r.resolved[i].with = m.type
                       /\ n \notin DOMAIN r.handlers
                /\ (~answers \/ n \notin DOMAIN kwm.handlers) =>
                       /\ Resolves(r, n) = {}
                       /\ (n \in DOMAIN kwm.handlers => r.handlers[n] = kwm.handlers[n])
                /\ m.reply_to # 0 => r.routed = <<>>

\* an error envelope answers a registered request while the reply to an
\* earlier request has not arrived
C20_Witness ==
    /\ kwm.socket # 0
    /\ kwm.connected
    /\ \E n, o \in DOMAIN kwm.handlers :
          /\ n # o
          /\ kwm.handlers[n].timer
          /\ handleWebSocketMessage(kwm, kwm.socket, Envelope("error", 0, n)).resolved
                 = <<[id |-> n, with |-> "error"]>>

\* C21: the delay of a reconnect that is not fast, after the attempts made so
\* far, is at least min(maxReconnectInterval, reconnectInterval * factor^attempts)
\* and less than that plus reconnectSpreader (both sides are multiplied by the
\* denominator of factor^attempts)
C21_BackoffBounds ==
    \A rnd \in Spreads :
        LET a     == backoff.reconnectAttempts
            den   == IntPow(reconnectFactor[2], a)
            exact == reconnectInterval * IntPow(reconnectFactor[1], a)
            low   == IF exact > maxReconnectInterval * den
                     THEN maxReconnectInterval * den ELSE exact
            d     == reconnectTimeout(a, FALSE, rnd) * den
        IN  low <= d /\ d < low + reconnectSpreader * den

\* C22: while the client is connected and not closing, a refresh attempt that
\* fails, by a network failure or by an answer that is not 2xx, leaves the
\* refresher's timer armed for another attempt
C22_TurnRefreshRetries ==
    (turn.fetches > 0 /\ turn.connected /\ ~turn.closing) =>
        \A result \in TurnResults, prevented \in BOOLEAN :
            result.kind \in {"throw", "http_error"} =>
                turnFetched(turn, result, prevented).turnRefresher # 0

\* a webrtc envelope without v, or with a v below the required version
IsOutdated(m) == m.type = "webrtc" /\ (m.v = 0 \/ m.v < Version)

\* C23: a webrtc envelope whose v is missing or below the required version
\* changes nothing, emits nothing and sends nothing, whether it arrives from
\* the server or on the data channel of a peer
C23_OutdatedIgnored ==
    /\ \A m \in CallMsgs \cup MeshMsgs, v \in {0, Version - 1}, n1, n2 \in Nonces :
           m.type = "webrtc" =>
               LET r == handleWebRTCMessage(St, [m EXCEPT !.v = v], n1, n2)
               IN  SameEngine(St, r) /\ r.sent = <<>> /\ r.events = <<>>
    /\ \A pc \in DOMAIN p2p.connections, m \in DcWebrtcMsgs :
           IsOutdated(m) => handleData(p2p, pc, m) = p2p

\* an outdated signal arrives on a data channel for a stream whose callback
\* would take it, had it the required version
C23_Witness ==
    \E pc \in DOMAIN p2p.connections, m \in DcWebrtcMsgs :
        /\ IsOutdated(m)
        /\ m.source \in DOMAIN p2p.callbacks
        /\ m.data = "sdp"
        /\ handleData(p2p, pc, m) = p2p
        /\ handleData(p2p, pc, [m EXCEPT !.v = Version]) # p2p

\* message m is, or carries in its data, a handshake_reply with this ts and
\* the version of this side
CarriesReply(m, ts) ==
    \/ m.subtype = "handshake_reply" /\ m.ts = ts /\ m.v = P2PVersion
    \/ m.subtype = "handshake" /\ m.reply.set /\ m.reply.ts = ts /\ m.reply.v = P2PVersion

\* every announce_streams payload among r.sent went to a record that is ready
AnnouncedToReady(r) ==
    \A i \in DOMAIN r.sent :
        r.sent[i].payload.subtype = "announce_streams" =>
            /\ r.sent[i].pc \in DOMAIN r.connections
            /\ r.connections[r.sent[i].pc].ready

\* C24: a record becomes ready only when this side has sent its handshake on
\* the connection (handleConnect ran: connected) and the message is a
\* handshake_reply with the ts of that handshake and this side's version;
\* stream announcements go to ready records only
C24_ReadyAfterHandshake ==
    /\ \A pc \in DOMAIN p2p.connections, m \in DcMsgs :
           LET r == handleData(p2p, pc, m)
           IN  /\ (r.connections[pc].ready /\ ~p2p.connections[pc].ready) =>
                      /\ p2p.connections[pc].connected
                      /\ CarriesReply(m, p2p.connections[pc].ts)
               /\ AnnouncedToReady(r)
    /\ \A id \in LocalStreamIds, stream \in BOOLEAN, token \in LocalTokens :
           AnnouncedToReady(p2pSetLocalStream(p2p, id, "screenshare", stream, token))
    /\ \A pc \in DOMAIN p2p.connections :
           p2p.connections[pc].ready => p2p.connections[pc].connected

\* the ids list L announces with a supported kind
Announced(L) == {L[i].id : i \in {j \in DOMAIN L : L[j].kind = "screenshare"}}

\* the token list L announces last for id
LastToken(L, id) ==
    L[CHOOSE i \in DOMAIN L : L[i].id = id /\ \A j \in DOMAIN L : L[j].id = id => j <= i].token

\* the sub-connections bound in stream record sr
BoundPcs(p, sr) == {p.binders[b].pc : b \in Range(sr.connections)} \ {0}

\* C25: after announce_streams with list L the stream table of the record
\* holds exactly the ids of L with a supported kind; a new id has a stream
\* record with the announced token, the callback under that token and one
\* sub-connection; an id that was there is routable under the announced token
\* and no more under a token it had before; an id that L does not list has its
\* sub-connections destroyed and is dropped
C25_AnnounceStreams ==
    \A pc \in DOMAIN p2p.connections, m \in AnnounceMsgs :
        LET L   == m.streams
            old == p2p.connections[pc].streams
            r   == handleData(p2p, pc, m)
            new == r.connections[pc].streams
        IN  /\ DOMAIN new = Announced(L)
            /\ \A id \in DOMAIN new \ DOMAIN old :
                   /\ r.srs[new[id]].token = LastToken(L, id)
                   /\ LastToken(L, id) \in DOMAIN r.callbacks
                   /\ r.callbacks[LastToken(L, id)] = new[id]
                   /\ Cardinality(BoundPcs(r, r.srs[new[id]])) = 1
            /\ Cardinality(DOMAIN r.spcs \ DOMAIN p2p.spcs)
                   = Cardinality(DOMAIN new \ DOMAIN old)
            /\ \A id \in DOMAIN new \cap DOMAIN old :
                   /\ new[id] = old[id]
                   /\ r.srs[new[id]].token \in DOMAIN r.callbacks
                   /\ r.callbacks[r.srs[new[id]].token] = new[id]
                   /\ \A t \in DOMAIN r.callbacks :
                          r.callbacks[t] = new[id] => t = r.srs[new[id]].token
            /\ \A id \in DOMAIN old :
                   (\A i \in DOMAIN L : L[i].id # id) =>
                       /\ id \notin DOMAIN new
                       /\ \A x \in BoundPcs(p2p, p2p.srs[old[id]]) : r.spcs[x].destroyed

\* the replies to calls among the envelopes of the server
ReplyEnvelopes ==
    {m \in CallMsgs \cup MeshMsgs \cup CallReplyMsgs :
        m.type = "webrtc" /\ m.subtype = "webrtc_call" /\ ~m.initiator}

\* the group hash exchange: an accepted reply for the record's group, which
\* is the group this client is in
GroupAcceptException(rec, m) ==
    /\ group # 0
    /\ rec.group \notin {"", Undef}
    /\ m.group \notin {"", Undef}
    /\ rec.group = m.group
    /\ rec.group = heap[group].gid
    /\ m.data.accept

\* reply m is to be dropped for the record of its source
ReplyDropped(m) ==
    /\ m.source \in DOMAIN peers
    /\ \/ heap[peers[m.source]].state # m.data.state
       \/ /\ heap[peers[m.source]].hash # m.hash
          /\ ~GroupAcceptException(heap[peers[m.source]], m)

\* C26: a reply to a call whose data.state is not the record's state, or whose
\* hash is not the record's hash outside the group hash exchange, changes no
\* record, pc, channel or table entry, and no event is emitted
C26_ReplyDropped ==
    \A m \in ReplyEnvelopes, n1, n2 \in Nonces :
        ReplyDropped(m) =>
            LET r == handleWebRTCMessage(St, m, n1, n2)
            IN  SameEngine(St, r) /\ r.events = <<>> /\ r.sent = <<>>

\* in a group call a reply that is not accepted, with the record's state and
\* group and another hash, is at hand, and so is a reply with another state
C26_Witness ==
    \E m1, m2 \in ReplyEnvelopes :
        /\ ReplyDropped(m1) /\ ReplyDropped(m2)
        /\ heap[peers[m1.source]].state # m1.data.state
        /\ heap[peers[m2.source]].state = m2.data.state
        /\ heap[peers[m2.source]].hash # m2.hash
        /\ group # 0
        /\ heap[peers[m2.source]].group = heap[group].gid
        /\ m2.group = heap[group].gid
        /\ ~m2.data.accept

----------------------------------------------------------------------------
(* An accepted reply starts the peer connection *)

\* the reply passes the state check and the hash check
ReplyPasses(m) ==
    /\ m.source \in DOMAIN peers
    /\ heap[peers[m.source]].state = m.data.state
    /\ (heap[peers[m.source]].hash = m.hash \/ GroupAcceptException(heap[peers[m.source]], m))

\* the positions in q of the synthetic signal of pc for user u
Renegotiates(q, u, pc) ==
    {i \in DOMAIN q : /\ q[i].subtype = "webrtc_signal"
                      /\ q[i].target = u
                      /\ q[i].pcid = pc
                      /\ q[i].data = [renegotiate |-> TRUE]}

\* the names of the events in e
EventNames(e) == {e[i].event : i \in DOMAIN e}

\* C27: while the socket is open, a non-initiator webrtc_call that passes the
\* state and hash checks and accepts sets record.ref to the state of the
\* message, creates exactly one pc, bound to the record, with initiator =
\* computeInitiator(record), dispatches outgoingcall, and sends one
\* webrtc_signal with data {renegotiate: true} if it is not the initiator and
\* no envelope if it is; a reply that does not accept dispatches abortcall
\* and creates no pc
C27_AcceptedReply ==
    \A m \in ReplyEnvelopes, n1, n2 \in Nonces :
        (connected /\ m.v >= Version /\ ReplyPasses(m)) =>
            LET rid == peers[m.source]
                rec == heap[rid]
                r   == handleWebRTCMessage(St, m, n1, n2)
                new == DOMAIN r.pcs \ DOMAIN pcs
                ini == computeInitiator(St, rec)
            IN  IF m.data.accept
                THEN /\ r.heap[rid].ref = m.state
                     /\ Cardinality(new) = 1
                     /\ r.heap[rid].pc \in new
                     /\ r.pcs[r.heap[rid].pc].initiator = ini
                     /\ ~r.pcs[r.heap[rid].pc].destroyed
                     /\ "outgoingcall" \in EventNames(r.events)
                     /\ "abortcall" \notin EventNames(r.events)
                     /\ Cardinality(Renegotiates(r.sent, rec.user, r.heap[rid].pc))
                            = (IF ini THEN 0 ELSE 1)
                     /\ Len(r.sent) = (IF ini THEN 0 ELSE 1)
                     /\ r.err = ""
                ELSE /\ "abortcall" \in EventNames(r.events)
                     /\ "outgoingcall" \notin EventNames(r.events)
                     /\ new = {}
                     /\ r.heap[rid].pc = rec.pc
                     /\ r.sent = <<>>

\* replies that pass both checks are at hand: an accepting one from a peer
\* towards which this side is the initiator, an accepting one from a peer
\* towards which it is not, and one that does not accept
C27_Witness ==
    /\ connected
    /\ \E m1, m2, m3 \in ReplyEnvelopes :
        /\ ReplyPasses(m1) /\ ReplyPasses(m2) /\ ReplyPasses(m3)
        /\ m1.v >= Version /\ m2.v >= Version /\ m3.v >= Version
        /\ m1.data.accept /\ m2.data.accept /\ ~m3.data.accept
        /\ computeInitiator(St, heap[peers[m1.source]])
        /\ ~computeInitiator(St, heap[peers[m2.source]])

----------------------------------------------------------------------------
(* Inbound webrtc_hangup *)

HangupEnvelopes == {m \in CallMsgs \cup MeshMsgs : m.subtype = "webrtc_hangup" /\ m.v >= Version}

\* the conditions of an inbound hangup: the channel of the envelope is the
\* current one, its source has a record, and the record's ref is empty or
\* the state of the envelope
HangupApplies(m) ==
    /\ m.channel = channel
    /\ m.source \in DOMAIN peers
    /\ heap[peers[m.source]].ref \in {"", m.state}

\* the local hangup of the record of m.source: the record is off the table,
\* its pc is destroyed, a hangup event is dispatched, no webrtc_hangup is sent
HungUpLocally(m, r) ==
    /\ m.source \notin DOMAIN r.peers
    /\ DOMAIN r.peers = DOMAIN peers \ {m.source}
    /\ LET pc == heap[peers[m.source]].pc
       IN  pc # 0 => r.pcs[pc].destroyed
    /\ \E i \in DOMAIN r.events : r.events[i] = [event |-> "hangup", id |-> m.source]
    /\ Hangups(r.sent) = {}
    /\ r.channel = channel

\* channel, peer table and pcs are as they were
HangupIgnored(r) == r.channel = channel /\ r.peers = peers /\ r.pcs = pcs

\* C28 as stated: an inbound webrtc_hangup hangs up locally when the channel
\* of the envelope is the current channel, its source has a record and the
\* record's ref is empty or the envelope's state; in every other case channel,
\* peer table and pcs are unchanged
C28_HangupConditions ==
    \A m \in HangupEnvelopes, n1, n2 \in Nonces :
        LET r == handleWebRTCMessage(St, m, n1, n2)
        IN  IF HangupApplies(m) THEN HungUpLocally(m, r) ELSE HangupIgnored(r)

\* C28 amended: the hangup is carried out when, in addition, the channel of
\* the envelope is not empty and the envelope carries data; in every other
\* case channel, peer table and pcs are unchanged
C28_HangupWithData ==
    \A m \in HangupEnvelopes, n1, n2 \in Nonces :
        LET r == handleWebRTCMessage(St, m, n1, n2)
        IN  IF HangupApplies(m) /\ m.channel # "" /\ m.data.present
            THEN HungUpLocally(m, r)
            ELSE HangupIgnored(r)

\* a hangup with data that meets the conditions for a record with a live pc
\* is at hand, next to one without data and one with another state
C28_Witness ==
    \E m1, m2, m3 \in HangupEnvelopes :
        /\ HangupApplies(m1) /\ m1.channel # "" /\ m1.data.present
        /\ heap[peers[m1.source]].pc # 0
        /\ ~pcs[heap[peers[m1.source]].pc].destroyed
        /\ HangupApplies(m2) /\ ~m2.data.present
        /\ m3.channel = channel /\ m3.source = m1.source /\ ~HangupApplies(m3)

----------------------------------------------------------------------------
(* Inbound webrtc_signal *)

SignalEnvelopes == {m \in CallMsgs \cup MeshMsgs : m.subtype = "webrtc_signal" /\ m.v >= Version}

\* the channel and state checks of an inbound signal
SignalPasses(m) ==
    /\ m.channel # "" /\ m.channel = channel
    /\ m.source \in DOMAIN peers
    /\ heap[peers[m.source]].ref \in {"", m.state}

\* signal() of the pc now bound to the record was called with the payload:
\* the pc took it, or threw because it is destroyed
FedTo(r, rid) ==
    /\ r.heap[rid].pc # 0
    /\ IF r.pcs[r.heap[rid].pc].destroyed
       THEN r.err # ""
       ELSE /\ r.err = ""
            /\ r.events # <<>>
            /\ r.events[Len(r.events)] = [event |-> "pc.signal()", id |-> r.heap[rid].id]

\* the handler destroyed the pc the record had and bound a new one
Replaced(r, rid) ==
    /\ heap[rid].pc # 0
    /\ r.pcs[heap[rid].pc].destroyed
    /\ r.heap[rid].pc \notin DOMAIN pcs \cup {0}
    /\ ~r.pcs[r.heap[rid].pc].destroyed

\* the handler left the pc the record had in place
KeptPc(r, rid) ==
    /\ r.heap[rid].pc = heap[rid].pc
    /\ r.pcs[heap[rid].pc] = pcs[heap[rid].pc]

\* the record's remote pc id was set and is not the one of the envelope
OtherRemotePc(rid, m) == heap[rid].rpcid # Undef /\ heap[rid].rpcid # m.pcid

\* what C29 requires of the result r of a signal for record rid
Reconciled(r, rid, m) ==
    /\ r.heap[rid].pc # 0
    /\ r.heap[rid].rpcid = m.pcid
    /\ heap[rid].pc # 0 =>
         IF OtherRemotePc(rid, m) THEN Replaced(r, rid) ELSE KeptPc(r, rid)
    /\ heap[rid].pc = 0 => r.heap[rid].pc \notin DOMAIN pcs
    /\ FedTo(r, rid)

\* C29 as stated: after an inbound webrtc_signal that passes the channel and
\* state checks the record has a pc and its rpcid is the pcid of the envelope;
\* the pc the record had is destroyed and replaced by a new one exactly when
\* rpcid was set and differs from that pcid; the payload goes to the pc that
\* is bound afterwards
C29_SignalReconciles ==
    \A m \in SignalEnvelopes, n1, n2 \in Nonces :
        SignalPasses(m) =>
            Reconciled(handleWebRTCMessage(St, m, n1, n2), peers[m.source], m)

\* C29 amended: the same for an envelope that carries data; one without data
\* changes nothing
C29_SignalWithDataReconciles ==
    \A m \in SignalEnvelopes, n1, n2 \in Nonces :
        SignalPasses(m) =>
            LET r == handleWebRTCMessage(St, m, n1, n2)
            IN  IF m.data.present
                THEN Reconciled(r, peers[m.source], m)
                ELSE SameEngine(St, r) /\ r.events = <<>> /\ r.sent = <<>>

\* signals with data that pass the checks are at hand for a record with a
\* live pc and a remote pc id: one with that id and one with another
C29_Witness ==
    \E m1, m2 \in SignalEnvelopes :
        /\ SignalPasses(m1) /\ SignalPasses(m2)
        /\ m1.data.present /\ m2.data.present
        /\ m1.source = m2.source
        /\ heap[peers[m1.source]].pc # 0
        /\ ~pcs[heap[peers[m1.source]].pc].destroyed
        /\ heap[peers[m1.source]].rpcid = m1.pcid
        /\ OtherRemotePc(peers[m2.source], m2)

----------------------------------------------------------------------------
(* Events of a pc that is no longer the pc of its record *)

\* the ids a SimplePeer can have had
PcIds == 1 .. (MaxPcs + 1)

\* the events passed on to the application under their own name
PcEventNames == {"pc.track", "pc.stream", "pc.iceStateChange", "pc.signalingStateChange"}

\* the handler changed nothing, sent nothing, dispatched nothing, called
\* nothing of the P2P Controller and armed no timer
EventIgnored(r) ==
    /\ SameEngine(St, r)
    /\ r.sent = <<>>
    /\ r.events = <<>>
    /\ r.toP2P = <<>>
    /\ r.err = ""

\* C30: an event (error, signal, connect, close, data, track, stream,
\* iceStateChange, signalingStateChange) of a pc that is not the current pc
\* of the record its handlers were created for changes no field of any
\* record, sends no envelope, calls nothing of the P2P Controller, dispatches
\* nothing to the application and arms no recovery
C30_StaleEventsIgnored ==
    \A rid \in DOMAIN heap : \A pc \in PcIds :
        pc # heap[rid].pc =>
            /\ EventIgnored(onError(St, rid, pc))
            /\ \A ini \in BOOLEAN :
                 EventIgnored(onSignal(St, ini, rid, pc, [renegotiate |-> TRUE]))
            /\ EventIgnored(onConnect(St, rid, pc))
            /\ EventIgnored(onClose(St, rid, pc))
            /\ EventIgnored(onData(St, rid, pc))
            /\ \A name \in PcEventNames : EventIgnored(onPcEvent(St, name, rid, pc))

\* a record on the table has a live pc while another live pc, created for a
\* record and since replaced, is still around
C30_Witness ==
    \E k \in DOMAIN peers : \E pc \in DOMAIN pcs :
        /\ heap[peers[k]].pc # 0
        /\ ~pcs[heap[peers[k]].pc].destroyed
        /\ ~pcs[pc].destroyed
        /\ \A rid \in DOMAIN heap : heap[rid].pc # pc
        /\ ~EventIgnored(onClose(St, peers[k], heap[peers[k]].pc))
        /\ ~EventIgnored(onConnect(St, peers[k], heap[peers[k]].pc))

----------------------------------------------------------------------------
(* The recovery timer of a pc *)

\* the pending recoveries
Recoveries == {c \in pend : c.k = "recover"}

\* the engine as the timer of recovery c finds it, with record.reconnect as
\* the application left it
AtRecovery(c, b) == [Without(c) EXCEPT !.heap[c.rid].reconnect = b]

\* the timer replaced the pc of the record of c: the pc the record had is
\* destroyed, one new pc is bound with the initiator value of c, and the
\* side that is not the initiator emitted {renegotiate: true}
RecoveryReplaced(s, r, c) ==
    LET old == s.heap[c.rid].pc
        new == DOMAIN r.pcs \ DOMAIN s.pcs
    IN  /\ old # 0 => r.pcs[old].destroyed
        /\ Cardinality(new) = 1
        /\ r.heap[c.rid].pc \in new
        /\ r.pcs[r.heap[c.rid].pc].initiator = c.initiator
        /\ ~r.pcs[r.heap[c.rid].pc].destroyed
        /\ Cardinality(Renegotiates(r.sent, s.heap[c.rid].user, r.heap[c.rid].pc))
               = (IF c.initiator THEN 0 ELSE 1)

\* the timer created nothing
RecoveryIdle(s, r) ==
    r.pcs = s.pcs /\ r.heap = s.heap /\ r.pend = s.pend /\ r.sent = <<>> /\ r.events = <<>>

\* a second recovery for the same failure, run right after r, creates nothing
SecondIdle(r, c) == RecoveryIdle(Settled(r), recoverTimer(Settled(r), c))

\* C31 as stated: when its delay expires a recovery replaces the pc only if
\* record.pc is still the failed pc and record.reconnect is true; in every
\* other case the timer creates nothing; a second recovery for the same
\* failure creates nothing
C31_RecoveryOnlyFailedPc ==
    \A c \in Recoveries, b \in BOOLEAN :
        LET s == AtRecovery(c, b)
            r == recoverTimer(s, c)
        IN  /\ IF s.heap[c.rid].pc = c.pc /\ b
               THEN RecoveryReplaced(s, r, c)
               ELSE RecoveryIdle(s, r)
            /\ (s.heap[c.rid].pc = c.pc /\ b) => SecondIdle(r, c)

\* C31 amended: the recovery also replaces when the record has no pc at all
\* (the close event of the failed pc has cleared record.pc, or a hangup has);
\* a second recovery for the same failure, run while the replacement is the
\* record's pc, creates nothing
C31_RecoveryFailedOrNoPc ==
    \A c \in Recoveries, b \in BOOLEAN :
        LET s == AtRecovery(c, b)
            r == recoverTimer(s, c)
        IN  /\ IF s.heap[c.rid].pc \in {c.pc, 0} /\ b
               THEN RecoveryReplaced(s, r, c)
               ELSE RecoveryIdle(s, r)
            /\ (s.heap[c.rid].pc \in {c.pc, 0} /\ b) => SecondIdle(r, c)

\* a recovery is pending for a record on the table whose failed pc has been
\* closed and unbound
C31_Witness ==
    \E c \in Recoveries :
        /\ c.pc # 0
        /\ heap[c.rid].pc = 0
        /\ heap[c.rid].reconnect
        /\ \E k \in DOMAIN peers : peers[k] = c.rid

----------------------------------------------------------------------------
(* The handshake over a reliable channel *)

BothConnected ==
    /\ 1 \in DOMAIN link.a.connections /\ link.a.connections[1].connected
    /\ 1 \in DOMAIN link.b.connections /\ link.b.connections[1].connected

BothReady ==
    /\ 1 \in DOMAIN link.a.connections /\ link.a.connections[1].ready
    /\ 1 \in DOMAIN link.b.connections /\ link.b.connections[1].ready

\* a handshake for a side that has one already leaves that side as it is and
\* is not answered
SecondHandshakeIgnored ==
    \A side \in Sides, m \in HandshakeMsgs :
        (1 \in DOMAIN link[side].connections /\ link[side].connections[1].handshake.set) =>
            handleData(link[side], 1, m) = link[side]

\* C32: once both ends of a peer connection have had their connect event,
\* with a data channel that delivers in order, both P2P records become
\* ready, whichever handshake arrives first and also when a handshake
\* arrives before the connect event of its receiver; a second handshake on
\* the same connection changes nothing
C32_HandshakeCompletes ==
    /\ BothConnected ~> BothReady
    /\ []SecondHandshakeIgnored

\* a side that is not connected yet holds the handshake of the other side,
\* which is connected and waits for the reply
C32_Witness ==
    \E side \in Sides :
        /\ 1 \in DOMAIN link[side].connections
        /\ ~link[side].connections[1].connected
        /\ link[side].connections[1].handshake.set
        /\ link[Other(side)].connections[1].connected
        /\ ~link[Other(side)].connections[1].ready

----------------------------------------------------------------------------
(* noop signals *)

\* the connections whose pc can still deliver data
LiveConns == {c \in DOMAIN p2p.connections : ~p2p.connections[c].destroyed}

\* the nested signals whose data carries noop: true
NoopSignals == {m \in DcWebrtcMsgs : m.data = "noop"}

\* the announcements of one stream of any kind, or of several screenshare
\* streams
StreamAnnouncements ==
    {m \in AnnounceMsgs :
        Len(m.streams) <= 1 \/ \A i \in DOMAIN m.streams : m.streams[i].kind = "screenshare"}

\* the sub-connections whose signal() a handler called
Signalled(r) == {r.events[i].id : i \in {j \in DOMAIN r.events : r.events[j].event = "pc.signal()"}}

\* the positions in q of the bootstrap signal of sub-connection spc
Bootstraps(q, c, spc) ==
    {i \in DOMAIN q : /\ q[i].pc = c
                      /\ q[i].payload.subtype = "webrtc_signal"
                      /\ q[i].payload.pcid = spc
                      /\ q[i].payload.data = "noop"}

\* C33: a nested webrtc_signal with noop: true is never passed to signal()
\* of a sub-connection; each sub-connection created for an announced stream
\* emits {renegotiate: true, noop: true} once when this side is not the
\* initiator of the parent connection, and nothing when it is
C33_NoopSignals ==
    \A c \in LiveConns :
        /\ \A m \in NoopSignals : Signalled(handleData(p2p, c, m)) = {}
        /\ \A m \in StreamAnnouncements :
             LET r == handleData(p2p, c, m)
             IN  \A spc \in DOMAIN r.spcs \ DOMAIN p2p.spcs :
                     /\ r.spcs[spc].rec = c
                     /\ Cardinality(Bootstraps(r.sent, c, spc))
                            = (IF p2p.connections[c].initiator THEN 0 ELSE 1)

\* a noop signal is at hand for a sub-connection that exists and is bound to
\* the remote pc id of the signal, and a stream can be announced to a
\* connection of each role
C33_Witness ==
    /\ \E c \in LiveConns, m \in NoopSignals :
          /\ m.v >= Version
          /\ m.source \in DOMAIN p2p.callbacks
          /\ c \in DOMAIN p2p.srs[p2p.callbacks[m.source]].connections
          /\ p2p.binders[p2p.srs[p2p.callbacks[m.source]].connections[c]].pc # 0
          /\ p2p.binders[p2p.srs[p2p.callbacks[m.source]].connections[c]].rpcid = m.pcid
    /\ \E c1, c2 \in LiveConns :
          /\ p2p.connections[c1].initiator /\ ~p2p.connections[c2].initiator
          /\ \E m \in StreamAnnouncements :
                /\ DOMAIN handleData(p2p, c1, m).spcs # DOMAIN p2p.spcs
                /\ DOMAIN handleData(p2p, c2, m).spcs # DOMAIN p2p.spcs


\* the sub-connections r has and p has not
Created(p, r) == DOMAIN r.spcs \ DOMAIN p.spcs

\* stream record srid is in the table of the local streams or in the stream
\* table of a registered connection
StreamExists(p, srid) ==
    \/ srid \in Range(p.localStreams)
    \/ \E c \in DOMAIN p.connections : srid \in Range(p.connections[c].streams)

\* the payloads of r with which sub-connection spc emits the noop signal
NoopEmitted(r, spc) ==
    {i \in DOMAIN r.sent : /\ r.sent[i].payload.subtype = "webrtc_signal"
                           /\ r.sent[i].payload.pcid = spc
                           /\ r.sent[i].payload.data = "noop"}

\* C34: when the delay of a recovery expires, a replacement sub-connection
\* is created only if the failed pc is still the pc of its binder; the
\* rpcid of the binder is then unset and a non-initiator emits the noop
\* signal; no replacement is created for a stream that was destroyed or
\* whose parent connection has closed
C34_SubRecovery ==
    p2p.pend # <<>> =>
        LET spc  == Head(p2p.pend)
            cell == p2p.spcs[spc]
            r    == subRecoverTimer(p2p)
        IN  /\ Created(p2p, r) # {} => p2p.binders[cell.bid].pc = spc
            /\ Created(p2p, r) # {} =>
                   /\ Cardinality(Created(p2p, r)) = 1
                   /\ r.binders[cell.bid].rpcid = 0
                   /\ r.binders[cell.bid].pc \in Created(p2p, r)
                   /\ ~cell.initiator /\ cell.rec \in DOMAIN p2p.connections
                      /\ ~p2p.connections[cell.rec].destroyed =>
                          NoopEmitted(r, r.binders[cell.bid].pc) # {}
            /\ (~StreamExists(p2p, cell.srid) \/ cell.rec \notin DOMAIN p2p.connections)
                   => Created(p2p, r) = {}


\* the screenshare sub-connections of p
ScreenshareSpcs(p) == {x \in DOMAIN p.spcs : p.spcs[x].kind = "screenshare"}

\* C35: a screenshare sub-connection created without a local stream has a
\* recv-only video transceiver when transceivers are supported, whether
\* this side is the initiator of the parent connection or not; one created
\* with a local stream sends the video tracks of the stream
C35_ScreenshareMedia ==
    /\ \A x \in ScreenshareSpcs(p2p) :
          p2p.spcs[x].media = IF p2p.spcs[x].stream THEN "tracks" ELSE "transceiver"
    /\ \A given, stream, initiator \in BOOLEAN :
          kindSwitch("screenshare", given, stream, initiator, FALSE) # "transceiver"


\* the recoveries pending for a record that is no longer in the peer table
OrphanRecoveries == {c \in Recoveries : c.rid \notin Range(peers)}

\* the webrtc_signal envelopes in q
SignalsSent(q) == {i \in DOMAIN q : q[i].subtype = "webrtc_signal"}

\* C36: once a record was removed from the peer table by a hangup, no pc is
\* created for it and no webrtc_signal is sent on its behalf, also by a
\* recovery that was pending at the time of the hangup
C36_NoPcAfterHangup ==
    \A c \in OrphanRecoveries :
        LET r == recoverTimer(Without(c), c)
        IN  /\ DOMAIN r.pcs = DOMAIN pcs
            /\ r.heap[c.rid].pc = 0
            /\ SignalsSent(r.sent) = {}


\* in r every record that has another pc than it had in s has its pc of s
\* destroyed
Rebound(s, r) ==
    \A rid \in DOMAIN s.heap \cap DOMAIN r.heap :
        (s.heap[rid].pc # 0 /\ r.heap[rid].pc \notin {0, s.heap[rid].pc})
            => r.pcs[s.heap[rid].pc].destroyed

\* C37: whenever a new pc is bound to a peer record, the pc that was bound
\* to it has been destroyed, by an inbound envelope (an accepted reply that
\* arrives a second time among them) and by a recovery alike
C37_OneLivePc ==
    /\ \A m \in CallMsgs \cup CallReplyMsgs, n1, n2 \in Nonces :
          Rebound(St, handleWebRTCMessage(St, m, n1, n2))
    /\ \A c \in Recoveries : Rebound(Without(c), recoverTimer(Without(c), c))


\* the tokens of the streams that exist: the local streams and the entries
\* of the stream tables of the registered connections
StreamTokens(p) == {p.srs[i].token : i \in {j \in DOMAIN p.srs : StreamExists(p, j)}}

\* the nested signals of the current version
NestedSignals == {m \in DcWebrtcMsgs : m.v = Version}

\* C38: the routing table holds a callback under a token only while a
\* stream with that token exists, and a nested webrtc_signal whose source
\* is the token of no stream creates no sub-connection
C38_CallbacksOfStreams ==
    /\ DOMAIN p2p.callbacks \subseteq StreamTokens(p2p)
    /\ \A c \in LiveConns, m \in NestedSignals :
          m.source \notin StreamTokens(p2p) =>
              Created(p2p, handleData(p2p, c, m)) = {}


\* the KWM object after the open event of socket s
Opened(s) == onopen([kwm EXCEPT !.socks[s].ready = "open"], s)

\* C39: after destroy() the client opens no new socket and does not become
\* connected unless the application calls connect() again, also when a
\* reconnect timer was pending or a bootstrap request was in flight when
\* destroy() was called
C39_DestroyIsFinal ==
    kwm.destroyed =>
        /\ \A t \in kwm.tasks : t.k = "bootstrap" =>
               DOMAIN bootstrapped(KWithout(t), t.call, "ok").socks \subseteq DOMAIN kwm.socks
        /\ \A s \in DOMAIN kwm.socks : kwm.socks[s].ready = "connecting" =>
               (Opened(s).connected => kwm.connected)


\* the doGroup calls that wait for their reply
GroupCalls == {c \in pend : c.k = "doGroup"}

\* the engine after the application called doHangup() for all, as the next
\* handler finds it
HungUp == Settled(doHangup(St, "", "hangup"))

\* the reply of a doGroup call left group, channel, peer table and pcs of s
\* as they were and sent nothing
ReplyWithoutEffect(s, r) ==
    /\ r.group = s.group
    /\ r.channel = s.channel
    /\ r.peers = s.peers
    /\ DOMAIN r.pcs = DOMAIN s.pcs
    /\ r.sent = <<>>

\* C40: the reply of doGroup takes effect only if the join is still wanted:
\* when a channel or a group was established while doGroup waited, and when
\* the application called doHangup() while it waited, the reply creates no
\* group controller, adopts no channel and starts no mesh
C40_LateGroupReply ==
    \A c \in GroupCalls, m \in GroupReplyMsgs, n1, n2 \in Nonces :
        /\ (channel # "" \/ group # 0) =>
               ReplyWithoutEffect(St, doGroupResume(Without(c), c, m, n1, n2))
        /\ ReplyWithoutEffect(HungUp,
               doGroupResume([HungUp EXCEPT !.pend = @ \ {c}], c, m, n1, n2))

====
